---- MODULE Spec2Model ----
(***************************************************************************)
(* flake8-modern-annotations: the annotation checker                       *)
(* (src/flake8_modern_annotations/checker.py) as a state machine.          *)
(*                                                                         *)
(* Syntax trees are records shaped like Python's ast nodes.  A Violation   *)
(* is (node, message, kwargs) as in the source; the node is kept by its    *)
(* location (lineno, col_offset), the only attributes the checker reads    *)
(* from it when it emits.                                                  *)
(***************************************************************************)
EXTENDS Integers, Sequences, FiniteSets, TLC

VARIABLES
  version,            \* sys.version_info as major*100 + minor (307 .. 310)
  cls,                \* Checker's class variables (set by parse_options)
  checker,            \* the AnnotationChecker instance's fields
  future_enabled,     \* FutureVisitor.enabled
  pc,                 \* position of the run
  pending,            \* nodes the AnnotationVisitor still has to visit, in order
  allow_type_alias,   \* AnnotationVisitor.allow_type_alias
  type_map,           \* AnnotationVisitor.type_map
  postponed,          \* AnnotationVisitor.postponed
  deprecated_imports, \* AnnotationVisitor.deprecated_imports (insertion ordered)
  deprecated,         \* AnnotationVisitor.deprecated
  required,           \* AnnotationVisitor.required
  union_imports,      \* AnnotationVisitor.union_imports (insertion ordered)
  union,              \* AnnotationVisitor.union
  output,             \* what __iter__ has yielded
  probe               \* the input and result of a single applied function

vars == <<version, cls, checker, future_enabled, pc, pending, allow_type_alias,
          type_map, postponed, deprecated_imports, deprecated, required,
          union_imports, union, output, probe>>

\* Python's None
None == "<None>"

(***************************************************************************)
(* Message texts and the Message enum                                      *)
(***************************************************************************)
REMOVE_IMPORT == "'{name}' is deprecated, remove from import"

REPLACE_IMPORT == "'{name}' is deprecated, replace with '{replacement}'"

REPLACE_TYPE == "Replace '{name}' with '{replacement}'"

REQUIRE_TYPE == "Replace '{name}' with '{replacement}' for type alias"

POSTPONED_ASSIGN_TEXT == "Remove quotes from variable type annotation '{value}'"

POSTPONED_ARG_TEXT == "Remove quotes from argument type annotation '{value}'"

POSTPONED_RETURN_TEXT == "Remove quotes from return type annotation '{value}'"

UNION_TYPE_TEXT == "Replace '{name}' with |"

Message ==
  ("POSTPONED_ASSIGN_TYPE" :> <<1, POSTPONED_ASSIGN_TEXT>>) @@
  ("POSTPONED_ARG_TYPE" :> <<2, POSTPONED_ARG_TEXT>>) @@
  ("POSTPONED_RETURN_TYPE" :> <<3, POSTPONED_RETURN_TEXT>>) @@
  ("DEPRECATED_IMPORT_TUPLE" :> <<100, REMOVE_IMPORT>>) @@
  ("DEPRECATED_IMPORT_LIST" :> <<101, REMOVE_IMPORT>>) @@
  ("DEPRECATED_IMPORT_DICT" :> <<102, REMOVE_IMPORT>>) @@
  ("DEPRECATED_IMPORT_SET" :> <<103, REMOVE_IMPORT>>) @@
  ("DEPRECATED_IMPORT_FROZEN_SET" :> <<104, REMOVE_IMPORT>>) @@
  ("DEPRECATED_IMPORT_TYPE" :> <<105, REMOVE_IMPORT>>) @@
  ("REPLACED_IMPORT_DEQUE" :> <<110, REPLACE_IMPORT>>) @@
  ("REPLACED_IMPORT_DEFAULT_DICT" :> <<111, REPLACE_IMPORT>>) @@
  ("REPLACED_IMPORT_ORDERED_DICT" :> <<112, REPLACE_IMPORT>>) @@
  ("REPLACED_IMPORT_COUNTER" :> <<113, REPLACE_IMPORT>>) @@
  ("REPLACED_IMPORT_CHAIN_MAP" :> <<114, REPLACE_IMPORT>>) @@
  ("REPLACED_IMPORT_AWAITABLE" :> <<120, REPLACE_IMPORT>>) @@
  ("REPLACED_IMPORT_COROUTINE" :> <<121, REPLACE_IMPORT>>) @@
  ("REPLACED_IMPORT_ASYNC_ITERABLE" :> <<122, REPLACE_IMPORT>>) @@
  ("REPLACED_IMPORT_ASYNC_ITERATOR" :> <<123, REPLACE_IMPORT>>) @@
  ("REPLACED_IMPORT_ASYNC_GENERATOR" :> <<124, REPLACE_IMPORT>>) @@
  ("REPLACED_IMPORT_ITERABLE" :> <<125, REPLACE_IMPORT>>) @@
  ("REPLACED_IMPORT_ITERATOR" :> <<126, REPLACE_IMPORT>>) @@
  ("REPLACED_IMPORT_GENERATOR" :> <<127, REPLACE_IMPORT>>) @@
  ("REPLACED_IMPORT_REVERSIBLE" :> <<128, REPLACE_IMPORT>>) @@
  ("REPLACED_IMPORT_CONTAINER" :> <<129, REPLACE_IMPORT>>) @@
  ("REPLACED_IMPORT_COLLECTION" :> <<130, REPLACE_IMPORT>>) @@
  ("REPLACED_IMPORT_CALLABLE" :> <<131, REPLACE_IMPORT>>) @@
  ("REPLACED_IMPORT_ABSTRACT_SET" :> <<132, REPLACE_IMPORT>>) @@
  ("REPLACED_IMPORT_MUTABLE_SET" :> <<133, REPLACE_IMPORT>>) @@
  ("REPLACED_IMPORT_MAPPING" :> <<134, REPLACE_IMPORT>>) @@
  ("REPLACED_IMPORT_MUTABLE_MAPPING" :> <<135, REPLACE_IMPORT>>) @@
  ("REPLACED_IMPORT_SEQUENCE" :> <<136, REPLACE_IMPORT>>) @@
  ("REPLACED_IMPORT_MUTABLE_SEQUENCE" :> <<137, REPLACE_IMPORT>>) @@
  ("REPLACED_IMPORT_BYTE_STRING" :> <<138, REPLACE_IMPORT>>) @@
  ("REPLACED_IMPORT_MAPPING_VIEW" :> <<139, REPLACE_IMPORT>>) @@
  ("REPLACED_IMPORT_KEYS_VIEW" :> <<140, REPLACE_IMPORT>>) @@
  ("REPLACED_IMPORT_ITEMS_VIEW" :> <<141, REPLACE_IMPORT>>) @@
  ("REPLACED_IMPORT_VALUES_VIEW" :> <<142, REPLACE_IMPORT>>) @@
  ("REPLACED_IMPORT_CONTEXT_MANAGER" :> <<150, REPLACE_IMPORT>>) @@
  ("REPLACED_IMPORT_ASYNC_CONTEXT_MANAGER" :> <<151, REPLACE_IMPORT>>) @@
  ("REPLACED_IMPORT_PATTERN" :> <<160, REPLACE_IMPORT>>) @@
  ("REPLACED_IMPORT_MATCH" :> <<161, REPLACE_IMPORT>>) @@
  ("DEPRECATED_TYPE_TUPLE" :> <<200, REPLACE_TYPE>>) @@
  ("DEPRECATED_TYPE_LIST" :> <<201, REPLACE_TYPE>>) @@
  ("DEPRECATED_TYPE_DICT" :> <<202, REPLACE_TYPE>>) @@
  ("DEPRECATED_TYPE_SET" :> <<203, REPLACE_TYPE>>) @@
  ("DEPRECATED_TYPE_FROZEN_SET" :> <<204, REPLACE_TYPE>>) @@
  ("DEPRECATED_TYPE_TYPE" :> <<205, REPLACE_TYPE>>) @@
  ("DEPRECATED_TYPE_DEQUE" :> <<210, REPLACE_TYPE>>) @@
  ("DEPRECATED_TYPE_DEFAULT_DICT" :> <<211, REPLACE_TYPE>>) @@
  ("DEPRECATED_TYPE_ORDERED_DICT" :> <<212, REPLACE_TYPE>>) @@
  ("DEPRECATED_TYPE_COUNTER" :> <<213, REPLACE_TYPE>>) @@
  ("DEPRECATED_TYPE_CHAIN_MAP" :> <<214, REPLACE_TYPE>>) @@
  ("DEPRECATED_TYPE_AWAITABLE" :> <<220, REPLACE_TYPE>>) @@
  ("DEPRECATED_TYPE_COROUTINE" :> <<221, REPLACE_TYPE>>) @@
  ("DEPRECATED_TYPE_ASYNC_ITERABLE" :> <<222, REPLACE_TYPE>>) @@
  ("DEPRECATED_TYPE_ASYNC_ITERATOR" :> <<223, REPLACE_TYPE>>) @@
  ("DEPRECATED_TYPE_ASYNC_GENERATOR" :> <<224, REPLACE_TYPE>>) @@
  ("DEPRECATED_TYPE_ITERABLE" :> <<225, REPLACE_TYPE>>) @@
  ("DEPRECATED_TYPE_ITERATOR" :> <<226, REPLACE_TYPE>>) @@
  ("DEPRECATED_TYPE_GENERATOR" :> <<227, REPLACE_TYPE>>) @@
  ("DEPRECATED_TYPE_REVERSIBLE" :> <<228, REPLACE_TYPE>>) @@
  ("DEPRECATED_TYPE_CONTAINER" :> <<229, REPLACE_TYPE>>) @@
  ("DEPRECATED_TYPE_COLLECTION" :> <<230, REPLACE_TYPE>>) @@
  ("DEPRECATED_TYPE_CALLABLE" :> <<231, REPLACE_TYPE>>) @@
  ("DEPRECATED_TYPE_ABSTRACT_SET" :> <<232, REPLACE_TYPE>>) @@
  ("DEPRECATED_TYPE_MUTABLE_SET" :> <<233, REPLACE_TYPE>>) @@
  ("DEPRECATED_TYPE_MAPPING" :> <<234, REPLACE_TYPE>>) @@
  ("DEPRECATED_TYPE_MUTABLE_MAPPING" :> <<235, REPLACE_TYPE>>) @@
  ("DEPRECATED_TYPE_SEQUENCE" :> <<236, REPLACE_TYPE>>) @@
  ("DEPRECATED_TYPE_MUTABLE_SEQUENCE" :> <<237, REPLACE_TYPE>>) @@
  ("DEPRECATED_TYPE_BYTE_STRING" :> <<238, REPLACE_TYPE>>) @@
  ("DEPRECATED_TYPE_MAPPING_VIEW" :> <<239, REPLACE_TYPE>>) @@
  ("DEPRECATED_TYPE_KEYS_VIEW" :> <<240, REPLACE_TYPE>>) @@
  ("DEPRECATED_TYPE_ITEMS_VIEW" :> <<241, REPLACE_TYPE>>) @@
  ("DEPRECATED_TYPE_VALUES_VIEW" :> <<242, REPLACE_TYPE>>) @@
  ("DEPRECATED_TYPE_CONTEXT_MANAGER" :> <<250, REPLACE_TYPE>>) @@
  ("DEPRECATED_TYPE_ASYNC_CONTEXT_MANAGER" :> <<251, REPLACE_TYPE>>) @@
  ("DEPRECATED_TYPE_PATTERN" :> <<260, REPLACE_TYPE>>) @@
  ("DEPRECATED_TYPE_MATCH" :> <<261, REPLACE_TYPE>>) @@
  ("REQUIRED_TYPE_TUPLE" :> <<300, REQUIRE_TYPE>>) @@
  ("REQUIRED_TYPE_LIST" :> <<301, REQUIRE_TYPE>>) @@
  ("REQUIRED_TYPE_DICT" :> <<302, REQUIRE_TYPE>>) @@
  ("REQUIRED_TYPE_SET" :> <<303, REQUIRE_TYPE>>) @@
  ("REQUIRED_TYPE_FROZEN_SET" :> <<304, REQUIRE_TYPE>>) @@
  ("REQUIRED_TYPE_TYPE" :> <<305, REQUIRE_TYPE>>) @@
  ("REQUIRED_TYPE_DEQUE" :> <<310, REQUIRE_TYPE>>) @@
  ("REQUIRED_TYPE_DEFAULT_DICT" :> <<311, REQUIRE_TYPE>>) @@
  ("REQUIRED_TYPE_ORDERED_DICT" :> <<312, REQUIRE_TYPE>>) @@
  ("REQUIRED_TYPE_COUNTER" :> <<313, REQUIRE_TYPE>>) @@
  ("REQUIRED_TYPE_CHAIN_MAP" :> <<314, REQUIRE_TYPE>>) @@
  ("REQUIRED_TYPE_AWAITABLE" :> <<320, REQUIRE_TYPE>>) @@
  ("REQUIRED_TYPE_COROUTINE" :> <<321, REQUIRE_TYPE>>) @@
  ("REQUIRED_TYPE_ASYNC_ITERABLE" :> <<322, REQUIRE_TYPE>>) @@
  ("REQUIRED_TYPE_ASYNC_ITERATOR" :> <<323, REQUIRE_TYPE>>) @@
  ("REQUIRED_TYPE_ASYNC_GENERATOR" :> <<324, REQUIRE_TYPE>>) @@
  ("REQUIRED_TYPE_ITERABLE" :> <<325, REQUIRE_TYPE>>) @@
  ("REQUIRED_TYPE_ITERATOR" :> <<326, REQUIRE_TYPE>>) @@
  ("REQUIRED_TYPE_GENERATOR" :> <<327, REQUIRE_TYPE>>) @@
  ("REQUIRED_TYPE_REVERSIBLE" :> <<328, REQUIRE_TYPE>>) @@
  ("REQUIRED_TYPE_CONTAINER" :> <<329, REQUIRE_TYPE>>) @@
  ("REQUIRED_TYPE_COLLECTION" :> <<330, REQUIRE_TYPE>>) @@
  ("REQUIRED_TYPE_CALLABLE" :> <<331, REQUIRE_TYPE>>) @@
  ("REQUIRED_TYPE_ABSTRACT_SET" :> <<332, REQUIRE_TYPE>>) @@
  ("REQUIRED_TYPE_MUTABLE_SET" :> <<333, REQUIRE_TYPE>>) @@
  ("REQUIRED_TYPE_MAPPING" :> <<334, REQUIRE_TYPE>>) @@
  ("REQUIRED_TYPE_MUTABLE_MAPPING" :> <<335, REQUIRE_TYPE>>) @@
  ("REQUIRED_TYPE_SEQUENCE" :> <<336, REQUIRE_TYPE>>) @@
  ("REQUIRED_TYPE_MUTABLE_SEQUENCE" :> <<337, REQUIRE_TYPE>>) @@
  ("REQUIRED_TYPE_BYTE_STRING" :> <<338, REQUIRE_TYPE>>) @@
  ("REQUIRED_TYPE_MAPPING_VIEW" :> <<339, REQUIRE_TYPE>>) @@
  ("REQUIRED_TYPE_KEYS_VIEW" :> <<340, REQUIRE_TYPE>>) @@
  ("REQUIRED_TYPE_ITEMS_VIEW" :> <<341, REQUIRE_TYPE>>) @@
  ("REQUIRED_TYPE_VALUES_VIEW" :> <<342, REQUIRE_TYPE>>) @@
  ("REQUIRED_TYPE_CONTEXT_MANAGER" :> <<350, REQUIRE_TYPE>>) @@
  ("REQUIRED_TYPE_ASYNC_CONTEXT_MANAGER" :> <<351, REQUIRE_TYPE>>) @@
  ("REQUIRED_TYPE_PATTERN" :> <<360, REQUIRE_TYPE>>) @@
  ("REQUIRED_TYPE_MATCH" :> <<361, REQUIRE_TYPE>>) @@
  ("UNION_IMPORT" :> <<400, REMOVE_IMPORT>>) @@
  ("UNION_TYPE" :> <<401, UNION_TYPE_TEXT>>)

TYPING_TYPES ==
  {"AbstractSet", "AsyncContextManager", "AsyncGenerator", "AsyncIterable", "AsyncIterator",
   "Awaitable", "ByteString", "Callable", "ChainMap", "Collection",
   "Container", "ContextManager", "Coroutine", "Counter", "DefaultDict",
   "Deque", "Dict", "FrozenSet", "Generator", "ItemsView",
   "Iterable", "Iterator", "KeysView", "List", "Literal",
   "LiteralString", "Mapping", "MappingView", "Match", "MutableMapping",
   "MutableSequence", "MutableSet", "OrderedDict", "Pattern", "Reversible",
   "Sequence", "Set", "Tuple", "Type", "Union",
   "ValuesView"}

TYPING_EXTENSION_TYPES ==
  {"Literal", "LiteralString", "TypeAlias"}

COLLECTIONS_TYPES ==
  {"deque", "defaultdict", "OrderedDict", "Counter", "ChainMap"}

COLLECTIONS_ABC_TYPES ==
  {"Awaitable", "Coroutine", "AsyncIterable", "AsyncIterator", "AsyncGenerator",
   "Iterable", "Iterator", "Generator", "Reversible", "Container",
   "Collection", "Callable", "Set", "MutableSet", "Mapping",
   "MutableMapping", "Sequence", "MutableSequence", "ByteString", "MappingView",
   "KeysView", "ItemsView", "ValuesView"}

CONTEXTLIB_TYPES ==
  {"AbstractContextManager", "AbstractAsyncContextManager"}

RE_TYPES ==
  {"Pattern", "Match"}

LITERALS ==
  {"typing.Literal", "typing_extensions.Literal"}

\* fault: the entry of typing.Set carries the use-level message of typing.FrozenSet
DEPRECATED_TYPES_set_uses_frozen_set ==
  ("typing.Tuple" :> <<"tuple", "DEPRECATED_IMPORT_TUPLE", "DEPRECATED_TYPE_TUPLE">>) @@
  ("typing.List" :> <<"list", "DEPRECATED_IMPORT_LIST", "DEPRECATED_TYPE_LIST">>) @@
  ("typing.Dict" :> <<"dict", "DEPRECATED_IMPORT_DICT", "DEPRECATED_TYPE_DICT">>) @@
  ("typing.Set" :> <<"set", "DEPRECATED_IMPORT_SET", "DEPRECATED_TYPE_FROZEN_SET">>) @@
  ("typing.FrozenSet" :> <<"frozenset", "DEPRECATED_IMPORT_FROZEN_SET", "DEPRECATED_TYPE_FROZEN_SET">>) @@
  ("typing.Type" :> <<"type", "DEPRECATED_IMPORT_TYPE", "DEPRECATED_TYPE_TYPE">>)

DEPRECATED_TYPES ==
  ("typing.Tuple" :> <<"tuple", "DEPRECATED_IMPORT_TUPLE", "DEPRECATED_TYPE_TUPLE">>) @@
  ("typing.List" :> <<"list", "DEPRECATED_IMPORT_LIST", "DEPRECATED_TYPE_LIST">>) @@
  ("typing.Dict" :> <<"dict", "DEPRECATED_IMPORT_DICT", "DEPRECATED_TYPE_DICT">>) @@
  ("typing.Set" :> <<"set", "DEPRECATED_IMPORT_SET", "DEPRECATED_TYPE_SET">>) @@
  ("typing.FrozenSet" :> <<"frozenset", "DEPRECATED_IMPORT_FROZEN_SET", "DEPRECATED_TYPE_FROZEN_SET">>) @@
  ("typing.Type" :> <<"type", "DEPRECATED_IMPORT_TYPE", "DEPRECATED_TYPE_TYPE">>)

REPLACED_TYPES ==
  ("typing.Deque" :> <<"collections.deque", "REPLACED_IMPORT_DEQUE", "DEPRECATED_TYPE_DEQUE">>) @@
  ("typing.DefaultDict" :> <<"collections.defaultdict", "REPLACED_IMPORT_DEFAULT_DICT", "DEPRECATED_TYPE_DEFAULT_DICT">>) @@
  ("typing.OrderedDict" :> <<"collections.OrderedDict", "REPLACED_IMPORT_ORDERED_DICT", "DEPRECATED_TYPE_ORDERED_DICT">>) @@
  ("typing.Counter" :> <<"collections.Counter", "REPLACED_IMPORT_COUNTER", "DEPRECATED_TYPE_COUNTER">>) @@
  ("typing.ChainMap" :> <<"collections.ChainMap", "REPLACED_IMPORT_CHAIN_MAP", "DEPRECATED_TYPE_CHAIN_MAP">>) @@
  ("typing.Awaitable" :> <<"collections.abc.Awaitable", "REPLACED_IMPORT_AWAITABLE", "DEPRECATED_TYPE_AWAITABLE">>) @@
  ("typing.Coroutine" :> <<"collections.abc.Coroutine", "REPLACED_IMPORT_COROUTINE", "DEPRECATED_TYPE_COROUTINE">>) @@
  ("typing.AsyncIterable" :> <<"collections.abc.AsyncIterable", "REPLACED_IMPORT_ASYNC_ITERABLE", "DEPRECATED_TYPE_ASYNC_ITERABLE">>) @@
  ("typing.AsyncIterator" :> <<"collections.abc.AsyncIterator", "REPLACED_IMPORT_ASYNC_ITERATOR", "DEPRECATED_TYPE_ASYNC_ITERATOR">>) @@
  ("typing.AsyncGenerator" :> <<"collections.abc.AsyncGenerator", "REPLACED_IMPORT_ASYNC_GENERATOR", "DEPRECATED_TYPE_ASYNC_GENERATOR">>) @@
  ("typing.Iterable" :> <<"collections.abc.Iterable", "REPLACED_IMPORT_ITERABLE", "DEPRECATED_TYPE_ITERABLE">>) @@
  ("typing.Iterator" :> <<"collections.abc.Iterator", "REPLACED_IMPORT_ITERATOR", "DEPRECATED_TYPE_ITERATOR">>) @@
  ("typing.Generator" :> <<"collections.abc.Generator", "REPLACED_IMPORT_GENERATOR", "DEPRECATED_TYPE_GENERATOR">>) @@
  ("typing.Reversible" :> <<"collections.abc.Reversible", "REPLACED_IMPORT_REVERSIBLE", "DEPRECATED_TYPE_REVERSIBLE">>) @@
  ("typing.Container" :> <<"collections.abc.Container", "REPLACED_IMPORT_CONTAINER", "DEPRECATED_TYPE_CONTAINER">>) @@
  ("typing.Collection" :> <<"collections.abc.Collection", "REPLACED_IMPORT_COLLECTION", "DEPRECATED_TYPE_COLLECTION">>) @@
  ("typing.Callable" :> <<"collections.abc.Callable", "REPLACED_IMPORT_CALLABLE", "DEPRECATED_TYPE_CALLABLE">>) @@
  ("typing.AbstractSet" :> <<"collections.abc.Set", "REPLACED_IMPORT_ABSTRACT_SET", "DEPRECATED_TYPE_ABSTRACT_SET">>) @@
  ("typing.MutableSet" :> <<"collections.abc.MutableSet", "REPLACED_IMPORT_MUTABLE_SET", "DEPRECATED_TYPE_MUTABLE_SET">>) @@
  ("typing.Mapping" :> <<"collections.abc.Mapping", "REPLACED_IMPORT_MAPPING", "DEPRECATED_TYPE_MAPPING">>) @@
  ("typing.MutableMapping" :> <<"collections.abc.MutableMapping", "REPLACED_IMPORT_MUTABLE_MAPPING", "DEPRECATED_TYPE_MUTABLE_MAPPING">>) @@
  ("typing.Sequence" :> <<"collections.abc.Sequence", "REPLACED_IMPORT_SEQUENCE", "DEPRECATED_TYPE_SEQUENCE">>) @@
  ("typing.MutableSequence" :> <<"collections.abc.MutableSequence", "REPLACED_IMPORT_MUTABLE_SEQUENCE", "DEPRECATED_TYPE_MUTABLE_SEQUENCE">>) @@
  ("typing.ByteString" :> <<"collections.abc.ByteString", "REPLACED_IMPORT_BYTE_STRING", "DEPRECATED_TYPE_BYTE_STRING">>) @@
  ("typing.MappingView" :> <<"collections.abc.MappingView", "REPLACED_IMPORT_MAPPING_VIEW", "DEPRECATED_TYPE_MAPPING_VIEW">>) @@
  ("typing.KeysView" :> <<"collections.abc.KeysView", "REPLACED_IMPORT_KEYS_VIEW", "DEPRECATED_TYPE_KEYS_VIEW">>) @@
  ("typing.ItemsView" :> <<"collections.abc.ItemsView", "REPLACED_IMPORT_ITEMS_VIEW", "DEPRECATED_TYPE_ITEMS_VIEW">>) @@
  ("typing.ValuesView" :> <<"collections.abc.ValuesView", "REPLACED_IMPORT_VALUES_VIEW", "DEPRECATED_TYPE_VALUES_VIEW">>) @@
  ("typing.ContextManager" :> <<"contextlib.AbstractContextManager", "REPLACED_IMPORT_CONTEXT_MANAGER", "DEPRECATED_TYPE_CONTEXT_MANAGER">>) @@
  ("typing.AsyncContextManager" :> <<"contextlib.AbstractAsyncContextManager", "REPLACED_IMPORT_ASYNC_CONTEXT_MANAGER", "DEPRECATED_TYPE_ASYNC_CONTEXT_MANAGER">>) @@
  ("typing.Pattern" :> <<"re.Pattern", "REPLACED_IMPORT_PATTERN", "DEPRECATED_TYPE_PATTERN">>) @@
  ("typing.Match" :> <<"re.Match", "REPLACED_IMPORT_MATCH", "DEPRECATED_TYPE_MATCH">>)

REQUIRED_TYPES ==
  ("tuple" :> <<"typing.Tuple", "REQUIRED_TYPE_TUPLE">>) @@
  ("list" :> <<"typing.List", "REQUIRED_TYPE_LIST">>) @@
  ("dict" :> <<"typing.Dict", "REQUIRED_TYPE_DICT">>) @@
  ("set" :> <<"typing.Set", "REQUIRED_TYPE_SET">>) @@
  ("frozenset" :> <<"typing.FrozenSet", "REQUIRED_TYPE_FROZEN_SET">>) @@
  ("type" :> <<"typing.Type", "REQUIRED_TYPE_TYPE">>) @@
  ("collections.deque" :> <<"typing.Deque", "REQUIRED_TYPE_DEQUE">>) @@
  ("collections.defaultdict" :> <<"typing.DefaultDict", "REQUIRED_TYPE_DEFAULT_DICT">>) @@
  ("collections.OrderedDict" :> <<"typing.OrderedDict", "REQUIRED_TYPE_ORDERED_DICT">>) @@
  ("collections.Counter" :> <<"typing.Counter", "REQUIRED_TYPE_COUNTER">>) @@
  ("collections.ChainMap" :> <<"typing.ChainMap", "REQUIRED_TYPE_CHAIN_MAP">>) @@
  ("collections.abc.Awaitable" :> <<"typing.Awaitable", "REQUIRED_TYPE_AWAITABLE">>) @@
  ("collections.abc.Coroutine" :> <<"typing.Coroutine", "REQUIRED_TYPE_COROUTINE">>) @@
  ("collections.abc.AsyncIterable" :> <<"typing.AsyncIterable", "REQUIRED_TYPE_ASYNC_ITERABLE">>) @@
  ("collections.abc.AsyncIterator" :> <<"typing.AsyncIterator", "REQUIRED_TYPE_ASYNC_ITERATOR">>) @@
  ("collections.abc.AsyncGenerator" :> <<"typing.AsyncGenerator", "REQUIRED_TYPE_ASYNC_GENERATOR">>) @@
  ("collections.abc.Iterable" :> <<"typing.Iterable", "REQUIRED_TYPE_ITERABLE">>) @@
  ("collections.abc.Iterator" :> <<"typing.Iterator", "REQUIRED_TYPE_ITERATOR">>) @@
  ("collections.abc.Generator" :> <<"typing.Generator", "REQUIRED_TYPE_GENERATOR">>) @@
  ("collections.abc.Reversible" :> <<"typing.Reversible", "REQUIRED_TYPE_REVERSIBLE">>) @@
  ("collections.abc.Container" :> <<"typing.Container", "REQUIRED_TYPE_CONTAINER">>) @@
  ("collections.abc.Collection" :> <<"typing.Collection", "REQUIRED_TYPE_COLLECTION">>) @@
  ("collections.abc.Callable" :> <<"typing.Callable", "REQUIRED_TYPE_CALLABLE">>) @@
  ("collections.abc.Set" :> <<"typing.AbstractSet", "REQUIRED_TYPE_ABSTRACT_SET">>) @@
  ("collections.abc.MutableSet" :> <<"typing.MutableSet", "REQUIRED_TYPE_MUTABLE_SET">>) @@
  ("collections.abc.Mapping" :> <<"typing.Mapping", "REQUIRED_TYPE_MAPPING">>) @@
  ("collections.abc.MutableMapping" :> <<"typing.MutableMapping", "REQUIRED_TYPE_MUTABLE_MAPPING">>) @@
  ("collections.abc.Sequence" :> <<"typing.Sequence", "REQUIRED_TYPE_SEQUENCE">>) @@
  ("collections.abc.MutableSequence" :> <<"typing.MutableSequence", "REQUIRED_TYPE_MUTABLE_SEQUENCE">>) @@
  ("collections.abc.ByteString" :> <<"typing.ByteString", "REQUIRED_TYPE_BYTE_STRING">>) @@
  ("collections.abc.MappingView" :> <<"typing.MappingView", "REQUIRED_TYPE_MAPPING_VIEW">>) @@
  ("collections.abc.KeysView" :> <<"typing.KeysView", "REQUIRED_TYPE_KEYS_VIEW">>) @@
  ("collections.abc.ItemsView" :> <<"typing.ItemsView", "REQUIRED_TYPE_ITEMS_VIEW">>) @@
  ("collections.abc.ValuesView" :> <<"typing.ValuesView", "REQUIRED_TYPE_VALUES_VIEW">>) @@
  ("contextlib.AbstractContextManager" :> <<"typing.ContextManager", "REQUIRED_TYPE_CONTEXT_MANAGER">>) @@
  ("contextlib.AbstractAsyncContextManager" :> <<"typing.AsyncContextManager", "REQUIRED_TYPE_ASYNC_CONTEXT_MANAGER">>) @@
  ("re.Pattern" :> <<"typing.Pattern", "REQUIRED_TYPE_PATTERN">>) @@
  ("re.Match" :> <<"typing.Match", "REQUIRED_TYPE_MATCH">>)

(***************************************************************************)
(* Message.code, Message.text and Checker._ast_node_message                *)
(***************************************************************************)
\* flake8_modern_annotations.plugin_prefix (package __init__, seen in the tests)
plugin_prefix == "MDA"

\* Checker.name: __package__.replace('_', '-')
CheckerName == "flake8-modern-annotations"

RECURSIVE rjust(_, _, _)
rjust(s, width, fill) ==
  IF Len(s) >= width THEN s ELSE rjust(fill \o s, width, fill)

MessageCode(message) ==
  plugin_prefix \o rjust(ToString(Message[message][1]), 6 - Len(plugin_prefix), "0")

\* str.format(**kwargs): each template uses the fields it names and ignores the rest
MessageText(message, kwargs) ==
  LET t == Message[message][2] IN
  CASE t = REMOVE_IMPORT -> "'" \o kwargs.name \o "' is deprecated, remove from import"
    [] t = REPLACE_IMPORT -> "'" \o kwargs.name \o "' is deprecated, replace with '"
                               \o kwargs.replacement \o "'"
    [] t = REPLACE_TYPE -> "Replace '" \o kwargs.name \o "' with '" \o kwargs.replacement \o "'"
    [] t = REQUIRE_TYPE -> "Replace '" \o kwargs.name \o "' with '" \o kwargs.replacement
                               \o "' for type alias"
    [] t = POSTPONED_ASSIGN_TEXT -> "Remove quotes from variable type annotation '"
                               \o kwargs.value \o "'"
    [] t = POSTPONED_ARG_TEXT -> "Remove quotes from argument type annotation '"
                               \o kwargs.value \o "'"
    [] t = POSTPONED_RETURN_TEXT -> "Remove quotes from return type annotation '"
                               \o kwargs.value \o "'"
    [] t = UNION_TYPE_TEXT -> "Replace '" \o kwargs.name \o "' with |"

\* A Violation: (node, message, kwargs); the node is kept as kind and location.
NodeRef(node) ==
  [kind |-> node.kind, lineno |-> node.lineno, col_offset |-> node.col_offset]

Violation(node, message, kwargs) ==
  [node |-> NodeRef(node), message |-> message, kwargs |-> kwargs]

\* ASTResult: (line, column, text, Type)
ast_node_message(plugin_name, v) ==
  <<v.node.lineno, v.node.col_offset,
    MessageCode(v.message) \o plugin_name \o " " \o MessageText(v.message, v.kwargs),
    "AnnotationChecker">>

(***************************************************************************)
(* Syntax trees.  Source text is given in a surface form and parsed into   *)
(* ast-shaped records the way the running interpreter's ast module does:   *)
(*   - before 3.8 literals are Str / Num / Bytes / NameConstant /          *)
(*     Ellipsis nodes, from 3.8 on they are Constant nodes;                *)
(*   - before 3.9 a subscript's slice is wrapped in an Index node.         *)
(* Every node carries lineno and col_offset, computed from token widths.   *)
(***************************************************************************)
NoneNode == [kind |-> "NoneType"]

\* surface forms
SName(id) == [k |-> "name", id |-> id]

SAttr(value, attr) == [k |-> "attr", value |-> value, attr |-> attr]

SSub(value, args) == [k |-> "sub", value |-> value, args |-> args]

SList(elts) == [k |-> "list", elts |-> elts]

SBinOp(left, right) == [k |-> "binop", left |-> left, right |-> right]

\* vt: str | int | bool | bytes | None | Ellipsis; v: str(value)
SConst(vt, v) == [k |-> "const", vt |-> vt, v |-> v]

SNone == [k |-> "absent"]

ConstSrc(t) ==
  CASE t.vt = "str" -> "'" \o t.v \o "'"
    [] t.vt = "bytes" -> "b'" \o t.v \o "'"
    [] OTHER -> t.v

RECURSIVE Width(_)
RECURSIVE WidthSeq(_)
Width(t) ==
  CASE t.k = "name" -> Len(t.id)
    [] t.k = "attr" -> Width(t.value) + 1 + Len(t.attr)
    [] t.k = "sub" -> Width(t.value) + 1 + WidthSeq(t.args) + 1
    [] t.k = "list" -> 1 + WidthSeq(t.elts) + 1
    [] t.k = "binop" -> Width(t.left) + 3 + Width(t.right)
    [] t.k = "const" -> Len(ConstSrc(t))
    [] OTHER -> 0

\* elements joined by ", "
WidthSeq(ts) ==
  IF ts = <<>> THEN 0
  ELSE Width(Head(ts)) + (IF Len(ts) > 1 THEN 2 + WidthSeq(Tail(ts)) ELSE 0)

RECURSIVE ParseExpr(_, _, _, _)
RECURSIVE ParseExprs(_, _, _, _)
ParseExpr(t, line, col, ver) ==
  LET at == [lineno |-> line, col_offset |-> col] IN
  CASE t.k = "name" -> [kind |-> "Name", id |-> t.id] @@ at
    [] t.k = "attr" ->
         [kind |-> "Attribute", value |-> ParseExpr(t.value, line, col, ver),
          attr |-> t.attr] @@ at
    [] t.k = "sub" ->
         LET acol == col + Width(t.value) + 1
             elts == ParseExprs(t.args, line, acol, ver)
             inner == IF Len(elts) = 1 THEN elts[1]
                      ELSE [kind |-> "Tuple", elts |-> elts,
                            lineno |-> line, col_offset |-> acol]
             slice == IF ver < 309
                      THEN [kind |-> "Index", value |-> inner]
                      ELSE inner
         IN [kind |-> "Subscript", value |-> ParseExpr(t.value, line, col, ver),
             slice |-> slice] @@ at
    [] t.k = "list" ->
         [kind |-> "List", elts |-> ParseExprs(t.elts, line, col + 1, ver)] @@ at
    [] t.k = "binop" ->
         [kind |-> "BinOp", left |-> ParseExpr(t.left, line, col, ver),
          right |-> ParseExpr(t.right, line, col + Width(t.left) + 3, ver)] @@ at
    [] t.k = "const" ->
         IF ver >= 308
         THEN [kind |-> "Constant", vt |-> t.vt, value |-> t.v] @@ at
         ELSE CASE t.vt = "str" -> [kind |-> "Str", s |-> t.v] @@ at
                [] t.vt = "int" -> [kind |-> "Num", n |-> t.v] @@ at
                [] t.vt = "bytes" -> [kind |-> "Bytes", s |-> t.v] @@ at
                [] t.vt = "Ellipsis" -> [kind |-> "Ellipsis"] @@ at
                [] OTHER -> [kind |-> "NameConstant", value |-> t.v] @@ at
    [] OTHER -> NoneNode

ParseExprs(ts, line, col, ver) ==
  IF ts = <<>> THEN <<>>
  ELSE <<ParseExpr(Head(ts), line, col, ver)>>
         \o ParseExprs(Tail(ts), line, col + Width(Head(ts)) + 2, ver)

\* statements, surface form
SAlias(name, asname) == [name |-> name, asname |-> asname]

SImport(names) == [k |-> "import", names |-> names]

SImportFrom(module, names) == [k |-> "importfrom", module |-> module, names |-> names]

SAssign(target, value) == [k |-> "assign", target |-> target, value |-> value]

SAnnAssign(target, annotation) ==
  [k |-> "annassign", target |-> target, annotation |-> annotation]

SArg(arg, annotation) == [arg |-> arg, annotation |-> annotation]

SDef(async, name, args, returns, body) ==
  [k |-> "def", async |-> async, name |-> name, args |-> args,
   returns |-> returns, body |-> body]

SClass(name, body) == [k |-> "class", name |-> name, body |-> body]

SPass == [k |-> "pass"]

RECURSIVE Lines(_)
RECURSIVE LinesSeq(_)
Lines(t) == IF t.k \in {"def", "class"} THEN 1 + LinesSeq(t.body) ELSE 1

LinesSeq(ts) == IF ts = <<>> THEN 0 ELSE Lines(Head(ts)) + LinesSeq(Tail(ts))

ArgWidth(a) ==
  Len(a.arg) + (IF a.annotation = SNone THEN 0 ELSE 2 + Width(a.annotation))

RECURSIVE ArgsWidth(_)
ArgsWidth(as) ==
  IF as = <<>> THEN 0
  ELSE ArgWidth(Head(as)) + (IF Len(as) > 1 THEN 2 + ArgsWidth(Tail(as)) ELSE 0)

RECURSIVE ParseArgs(_, _, _, _)
ParseArgs(as, line, col, ver) ==
  IF as = <<>> THEN <<>>
  ELSE LET a == Head(as) IN
       <<[kind |-> "arg", arg |-> a.arg,
          annotation |-> ParseExpr(a.annotation, line, col + Len(a.arg) + 2, ver),
          lineno |-> line, col_offset |-> col]>>
         \o ParseArgs(Tail(as), line, col + ArgWidth(a) + 2, ver)

RECURSIVE ParseStmt(_, _, _, _)
RECURSIVE ParseStmts(_, _, _, _)
ParseStmt(t, line, indent, ver) ==
  LET at == [lineno |-> line, col_offset |-> indent] IN
  CASE t.k = "import" -> [kind |-> "Import", names |-> t.names] @@ at
    [] t.k = "importfrom" ->
         [kind |-> "ImportFrom", module |-> t.module, names |-> t.names] @@ at
    [] t.k = "assign" ->
         [kind |-> "Assign",
          value |-> ParseExpr(t.value, line, indent + Len(t.target) + 3, ver)] @@ at
    [] t.k = "annassign" ->
         [kind |-> "AnnAssign",
          annotation |-> ParseExpr(t.annotation, line, indent + Len(t.target) + 2, ver)] @@ at
    [] t.k = "def" ->
         LET acol == indent + (IF t.async THEN 6 ELSE 0) + 4 + Len(t.name) + 1 IN
         [kind |-> IF t.async THEN "AsyncFunctionDef" ELSE "FunctionDef",
          args |-> ParseArgs(t.args, line, acol, ver),
          body |-> ParseStmts(t.body, line + 1, indent + 4, ver),
          returns |-> ParseExpr(t.returns, line, acol + ArgsWidth(t.args) + 5, ver)] @@ at
    [] t.k = "class" ->
         [kind |-> "ClassDef",
          body |-> ParseStmts(t.body, line + 1, indent + 4, ver)] @@ at
    [] OTHER -> [kind |-> "Pass"] @@ at

ParseStmts(ts, line, indent, ver) ==
  IF ts = <<>> THEN <<>>
  ELSE <<ParseStmt(Head(ts), line, indent, ver)>>
         \o ParseStmts(Tail(ts), line + Lines(Head(ts)), indent, ver)

\* ast.parse: a Module is its body
ast_parse(src, ver) == ParseStmts(src, 1, 0, ver)

(***************************************************************************)
(* ast.NodeVisitor: visit(node) calls visit_<kind> when the visitor has    *)
(* that method and generic_visit(node) otherwise; generic_visit visits     *)
(* the child nodes in field order.  VisitOrder is the sequence of nodes    *)
(* on which a visit_<kind> method runs, in the order the methods finish.   *)
(* generic_first: the kinds whose method calls generic_visit before its    *)
(* own work.                                                               *)
(***************************************************************************)
RECURSIVE VisitOrder(_, _, _)
RECURSIVE GenericVisit(_, _, _)
GenericVisit(n, methods, generic_first) ==
  CASE n.kind \in {"FunctionDef", "AsyncFunctionDef"} ->
         VisitOrder(n.args, methods, generic_first)
           \o VisitOrder(n.body, methods, generic_first)
    [] n.kind = "ClassDef" -> VisitOrder(n.body, methods, generic_first)
    [] OTHER -> <<>>

VisitOrder(nodes, methods, generic_first) ==
  IF nodes = <<>> THEN <<>>
  ELSE LET n == Head(nodes)
           here == IF n.kind \in methods
                   THEN (IF n.kind \in generic_first
                         THEN GenericVisit(n, methods, generic_first) ELSE <<>>)
                          \o <<n>>
                   ELSE GenericVisit(n, methods, generic_first)
       IN here \o VisitOrder(Tail(nodes), methods, generic_first)

FutureVisitorMethods == {"ImportFrom"}

AnnotationVisitorMethods ==
  {"Import", "ImportFrom", "Assign", "AnnAssign", "arg", "FunctionDef"}

\* visit_FunctionDef starts with self.generic_visit(node)
AnnotationVisitorGenericFirst == {"FunctionDef"}

(***************************************************************************)
(* FutureVisitor                                                           *)
(***************************************************************************)
RECURSIVE AnyAnnotations(_)
AnyAnnotations(names) ==
  IF names = <<>> THEN FALSE
  ELSE IF Head(names).name = "annotations" THEN TRUE
  ELSE AnyAnnotations(Tail(names))

\* FutureVisitor.visit_ImportFrom: the new value of self.enabled
FutureVisitor_visit_ImportFrom(enabled, node) ==
  IF enabled \/ "__future__" # node.module THEN enabled
  ELSE IF AnyAnnotations(node.names) THEN TRUE ELSE enabled

RECURSIVE FutureFold(_, _)
FutureFold(enabled, nodes) ==
  IF nodes = <<>> THEN enabled
  ELSE FutureFold(FutureVisitor_visit_ImportFrom(enabled, Head(nodes)), Tail(nodes))

\* future_visitor = FutureVisitor(); future_visitor.visit(self.tree)
FutureVisitor_visit(tree) ==
  FutureFold(FALSE, VisitOrder(tree, FutureVisitorMethods, {}))

(***************************************************************************)
(* Python dicts whose order matters: a sequence of (key, value) entries    *)
(* in insertion order.                                                     *)
(***************************************************************************)
DictHas(d, k) == \E i \in 1..Len(d) : d[i].key = k

DictGet(d, k) == d[CHOOSE i \in 1..Len(d) : d[i].key = k].value

DictKeys(d) == {d[i].key : i \in 1..Len(d)}

\* d[k] = v
DictSet(d, k, v) ==
  IF DictHas(d, k)
  THEN [i \in 1..Len(d) |-> IF d[i].key = k THEN [key |-> k, value |-> v] ELSE d[i]]
  ELSE Append(d, [key |-> k, value |-> v])

\* del d[k]
DictDel(d, k) == SelectSeq(d, LAMBDA e : e.key # k)

\* d.values(), each a list, iterated in order
RECURSIVE DictValuesFlat(_)
DictValuesFlat(d) ==
  IF d = <<>> THEN <<>> ELSE Head(d).value \o DictValuesFlat(Tail(d))

\* type_map.get(name)
\* fault: a name the map does not hold is taken for a typing member of that name
TypeMapGet_assumes_typing(tm, name) ==
  IF name \in DOMAIN tm THEN tm[name] ELSE "typing." \o name

TypeMapGet(tm, name) == IF name \in DOMAIN tm THEN tm[name] ELSE None

(***************************************************************************)
(* AnnotationVisitor                                                       *)
(***************************************************************************)
\* AnnotationVisitor.__init__: self.type_map
InitialTypeMap ==
  [n \in {"tuple", "list", "dict", "set", "frozenset", "type"} |-> n]

RECURSIVE _name(_)
_name(node) ==
  CASE node.kind = "Subscript" -> _name(node.value)
    [] node.kind = "Name" -> node.id
    [] node.kind = "Attribute" -> _name(node.value) \o "." \o node.attr
    [] OTHER -> ""

\* _add_deprecated_import: the new self.deprecated_imports
_add_deprecated_import(di, node, type_name, alias_name) ==
  LET d0 == IF ~DictHas(di, alias_name) THEN DictSet(di, alias_name, <<>>) ELSE di
      entry == IF type_name \in DOMAIN REPLACED_TYPES
               THEN REPLACED_TYPES[type_name] ELSE DEPRECATED_TYPES[type_name]
  IN DictSet(d0, alias_name,
             Append(DictGet(d0, alias_name),
                    Violation(node, entry[2], [name |-> type_name, replacement |-> entry[1]])))

\* fault: the import of Union is not recorded
_add_union_import_dropped(ui, node, type_name, alias_name) == ui

\* _add_union_import: the new self.union_imports
_add_union_import(ui, node, type_name, alias_name) ==
  LET u0 == IF ~DictHas(ui, alias_name) THEN DictSet(ui, alias_name, <<>>) ELSE ui
  IN DictSet(u0, alias_name,
             Append(DictGet(u0, alias_name),
                    Violation(node, "UNION_IMPORT", [name |-> type_name])))

\* value = node.slice.value if isinstance(node.slice, ast.Index) else node.slice
SliceValue(node) ==
  IF node.slice.kind = "Index" THEN node.slice.value ELSE node.slice

\* the nodes the descent continues into: the tuple's elements or the single value
SliceItems(node) ==
  LET value == SliceValue(node) IN
  IF value.kind = "Tuple" THEN value.elts ELSE <<value>>

\* variant: retraction drops every import-level group, named or not
_remove_import_violations_drops_all(im, node) ==
  [deprecated_imports |-> <<>>, union_imports |-> <<>>]

\* _remove_import_violations: im = [deprecated_imports, union_imports], the new im
RECURSIVE _remove_import_violations(_, _)
RECURSIVE RemoveEach(_, _)
_remove_import_violations(im, node) ==
  LET im1 == IF node.kind \in {"Name", "Attribute", "Subscript"}
             THEN LET name == _name(node) IN
                  [deprecated_imports |-> DictDel(im.deprecated_imports, name),
                   union_imports |-> DictDel(im.union_imports, name)]
             ELSE im
  IN IF node.kind = "Subscript" THEN RemoveEach(im1, SliceItems(node)) ELSE im1

RemoveEach(im, items) ==
  IF items = <<>> THEN im
  ELSE RemoveEach(_remove_import_violations(im, Head(items)), Tail(items))

\* alias.asname or alias.name
ImportName(alias) == IF alias.asname # None THEN alias.asname ELSE alias.name

\* for type_name in types: type_map[f'{import_name}.{type_name}'] = f'{module}.{type_name}'
ModuleEntries(tm, import_name, types, module) ==
  LET keys == {import_name \o "." \o t : t \in types} IN
  [k \in keys |->
     module \o "." \o (CHOOSE t \in types : import_name \o "." \o t = k)] @@ tm

\* visit_Import: the new self.type_map
RECURSIVE visit_Import_names(_, _)
visit_Import_names(tm, names) ==
  IF names = <<>> THEN tm
  ELSE LET alias == Head(names)
           import_name == ImportName(alias)
           tm1 ==
             CASE "typing" = alias.name ->
                    ModuleEntries(tm, import_name, TYPING_TYPES, "typing")
               [] "typing_extensions" = alias.name ->
                    ModuleEntries(tm, import_name, TYPING_EXTENSION_TYPES, "typing_extensions")
               [] "collections" = alias.name ->
                    ModuleEntries(tm, import_name, COLLECTIONS_TYPES, "collections")
               [] "collections.abc" = alias.name ->
                    ModuleEntries(tm, import_name, COLLECTIONS_ABC_TYPES, "collections.abc")
               [] "contextlib" = alias.name ->
                    ModuleEntries(tm, import_name, CONTEXTLIB_TYPES, "contextlib")
               [] "re" = alias.name ->
                    ModuleEntries(tm, import_name, CONTEXTLIB_TYPES, "re")
               [] OTHER -> tm
       IN visit_Import_names(tm1, Tail(names))

visit_Import(tm, node) == visit_Import_names(tm, node.names)

\* visit_ImportFrom: st = [type_map, deprecated_imports, union_imports], the new st
RECURSIVE visit_ImportFrom_typing(_, _, _)
visit_ImportFrom_typing(st, node, names) ==
  IF names = <<>> THEN st
  ELSE LET alias == Head(names)
           type_name == "typing." \o alias.name
           alias_name == ImportName(alias)
           st1 == [st EXCEPT !.type_map = (alias_name :> type_name) @@ st.type_map]
           st2 ==
             IF type_name \in DOMAIN DEPRECATED_TYPES \/ type_name \in DOMAIN REPLACED_TYPES
             THEN [st1 EXCEPT !.deprecated_imports =
                     _add_deprecated_import(st1.deprecated_imports, node, type_name, alias_name)]
             ELSE IF "typing.Union" = type_name
             THEN [st1 EXCEPT !.union_imports =
                     _add_union_import(st1.union_imports, node, type_name, alias_name)]
             ELSE st1
       IN visit_ImportFrom_typing(st2, node, Tail(names))

RECURSIVE visit_ImportFrom_other(_, _, _, _)
visit_ImportFrom_other(tm, names, types, module) ==
  IF names = <<>> THEN tm
  ELSE LET alias == Head(names)
           tm1 == IF alias.name \in types
                  THEN (ImportName(alias) :> (module \o "." \o alias.name)) @@ tm
                  ELSE tm
       IN visit_ImportFrom_other(tm1, Tail(names), types, module)

visit_ImportFrom(st, node) ==
  CASE "typing" = node.module -> visit_ImportFrom_typing(st, node, node.names)
    [] "typing_extensions" = node.module ->
         [st EXCEPT !.type_map = visit_ImportFrom_other(
            st.type_map, node.names, TYPING_EXTENSION_TYPES, "typing_extensions")]
    [] "collections" = node.module ->
         [st EXCEPT !.type_map = visit_ImportFrom_other(
            st.type_map, node.names, COLLECTIONS_TYPES, "collections")]
    [] "collections.abc" = node.module ->
         [st EXCEPT !.type_map = visit_ImportFrom_other(
            st.type_map, node.names, COLLECTIONS_ABC_TYPES, "collections.abc")]
    [] "contextlib" = node.module ->
         [st EXCEPT !.type_map = visit_ImportFrom_other(
            st.type_map, node.names, CONTEXTLIB_TYPES, "contextlib")]
    [] "re" = node.module ->
         [st EXCEPT !.type_map = visit_ImportFrom_other(
            st.type_map, node.names, RE_TYPES, "re")]
    [] OTHER -> st

(***************************************************************************)
(* The four rule evaluators: each yields a sequence of Violations.         *)
(***************************************************************************)
RECURSIVE _check_postponed(_, _, _)
RECURSIVE PostponedEach(_, _, _)
\* fault: the Ellipsis constant is not exempted
_check_postponed_ellipsis_reported(tm, annotation, message) ==
  IF annotation.kind = "Constant"
  THEN IF annotation.vt = "None"
       THEN <<>>
       ELSE <<Violation(annotation, message, [value |-> annotation.value])>>
  ELSE IF annotation.kind = "Subscript"
  THEN IF /\ annotation.value.kind \in {"Name", "Attribute"}
          /\ TypeMapGet(tm, _name(annotation)) \in LITERALS
       THEN <<>>
       ELSE PostponedEach(tm, SliceItems(annotation), message)
  ELSE IF annotation.kind = "Str"
  THEN <<Violation(annotation, message, [value |-> annotation.s])>>
  ELSE <<>>

_check_postponed(tm, annotation, message) ==
  IF annotation.kind = "Constant"
  THEN IF annotation.vt = "None" \/ annotation.vt = "Ellipsis"
       THEN <<>>
       ELSE <<Violation(annotation, message, [value |-> annotation.value])>>
  ELSE IF annotation.kind = "Subscript"
  THEN IF /\ annotation.value.kind \in {"Name", "Attribute"}
          /\ TypeMapGet(tm, _name(annotation)) \in LITERALS
       THEN <<>>
       ELSE PostponedEach(tm, SliceItems(annotation), message)
  ELSE IF annotation.kind = "Str"
  THEN <<Violation(annotation, message, [value |-> annotation.s])>>
  ELSE <<>>

\* fault: the arguments of a generic are reported with the variable role whatever
\* position the descent started from
PostponedEach_role_lost(tm, items, message) ==
  IF items = <<>> THEN <<>>
  ELSE _check_postponed(tm, Head(items), "POSTPONED_ASSIGN_TYPE")
         \o PostponedEach(tm, Tail(items), message)

PostponedEach(tm, items, message) ==
  IF items = <<>> THEN <<>>
  ELSE _check_postponed(tm, Head(items), message)
         \o PostponedEach(tm, Tail(items), message)

RECURSIVE _check_deprecated(_, _)
RECURSIVE DeprecatedEach(_, _)
\* fault: the use-diagnostic names the canonical identifier, not the local spelling
_check_deprecated_canonical(tm, annotation) ==
  LET own ==
        IF annotation.kind \in {"Name", "Attribute", "Subscript"}
        THEN LET type_name == TypeMapGet(tm, _name(annotation))
             IN IF type_name \in DOMAIN DEPRECATED_TYPES \/ type_name \in DOMAIN REPLACED_TYPES
                THEN LET entry == IF type_name \in DOMAIN DEPRECATED_TYPES
                                  THEN DEPRECATED_TYPES[type_name]
                                  ELSE REPLACED_TYPES[type_name]
                     IN <<Violation(annotation, entry[3],
                                    [name |-> type_name, replacement |-> entry[1]])>>
                ELSE <<>>
        ELSE <<>>
  IN IF annotation.kind = "Subscript"
     THEN own \o DeprecatedEach(tm, SliceItems(annotation))
     ELSE own

_check_deprecated(tm, annotation) ==
  LET own ==
        IF annotation.kind \in {"Name", "Attribute", "Subscript"}
        THEN LET name == _name(annotation)
                 type_name == TypeMapGet(tm, name)
             IN IF type_name \in DOMAIN DEPRECATED_TYPES \/ type_name \in DOMAIN REPLACED_TYPES
                THEN LET entry == IF type_name \in DOMAIN DEPRECATED_TYPES
                                  THEN DEPRECATED_TYPES[type_name]
                                  ELSE REPLACED_TYPES[type_name]
                     IN <<Violation(annotation, entry[3],
                                    [name |-> name, replacement |-> entry[1]])>>
                ELSE <<>>
        ELSE <<>>
  IN IF annotation.kind = "Subscript"
     THEN own \o DeprecatedEach(tm, SliceItems(annotation))
     ELSE own

\* fault: only the first member of a tuple of arguments is processed
DeprecatedEach_first_only(tm, items) ==
  IF items = <<>> THEN <<>> ELSE _check_deprecated(tm, Head(items))

DeprecatedEach(tm, items) ==
  IF items = <<>> THEN <<>>
  ELSE _check_deprecated(tm, Head(items)) \o DeprecatedEach(tm, Tail(items))

RECURSIVE _check_required(_, _)
RECURSIVE RequiredEach(_, _)
_check_required(tm, annotation) ==
  LET own ==
        IF annotation.kind \in {"Name", "Attribute", "Subscript"}
        THEN LET name == _name(annotation)
                 type_name == TypeMapGet(tm, name)
             IN IF type_name \in DOMAIN REQUIRED_TYPES
                THEN LET entry == REQUIRED_TYPES[type_name]
                     IN <<Violation(annotation, entry[2],
                                    [name |-> name, replacement |-> entry[1]])>>
                ELSE <<>>
        ELSE <<>>
  IN IF annotation.kind = "Subscript"
     THEN own \o RequiredEach(tm, SliceItems(annotation))
     ELSE own

RequiredEach(tm, items) ==
  IF items = <<>> THEN <<>>
  ELSE _check_required(tm, Head(items)) \o RequiredEach(tm, Tail(items))

RECURSIVE _check_union(_, _)
RECURSIVE UnionEach(_, _)
_check_union(tm, annotation) ==
  LET own ==
        IF annotation.kind \in {"Name", "Attribute", "Subscript"}
        THEN LET name == _name(annotation)
                 type_name == TypeMapGet(tm, name)
             IN IF "typing.Union" = type_name
                THEN <<Violation(annotation, "UNION_TYPE", [name |-> name])>>
                ELSE <<>>
        ELSE <<>>
  IN IF annotation.kind = "Subscript"
     THEN own \o UnionEach(tm, SliceItems(annotation))
     ELSE own

UnionEach(tm, items) ==
  IF items = <<>> THEN <<>>
  ELSE _check_union(tm, Head(items)) \o UnionEach(tm, Tail(items))

\* fault: the deprecated and union evaluators run on the right-hand side in alias
\* mode as well
visit_Assign_always_evaluated(v, node) ==
  LET w == [v EXCEPT !.deprecated = v.deprecated \o _check_deprecated(v.type_map, node.value),
                     !.union = v.union \o _check_union(v.type_map, node.value)]
  IN IF v.allow_type_alias
     THEN LET im == _remove_import_violations(
                      [deprecated_imports |-> v.deprecated_imports,
                       union_imports |-> v.union_imports], node.value)
          IN [w EXCEPT !.deprecated_imports = im.deprecated_imports,
                       !.union_imports = im.union_imports,
                       !.required = v.required \o _check_required(v.type_map, node.value)]
     ELSE w

\* visit_Assign: v = the visitor's fields, the new v
visit_Assign(v, node) ==
  IF v.allow_type_alias
  THEN LET im == _remove_import_violations(
                   [deprecated_imports |-> v.deprecated_imports,
                    union_imports |-> v.union_imports], node.value)
       IN [v EXCEPT !.deprecated_imports = im.deprecated_imports,
                    !.union_imports = im.union_imports,
                    !.required = v.required \o _check_required(v.type_map, node.value)]
  ELSE [v EXCEPT !.deprecated = v.deprecated \o _check_deprecated(v.type_map, node.value),
                 !.union = v.union \o _check_union(v.type_map, node.value)]

(***************************************************************************)
(* Checker (class variables) and AnnotationChecker                         *)
(***************************************************************************)
\* the class body of Checker: plugin_name is declared without a value
ClassDefaults ==
  [plugin_name |-> None,
   postponed_option |-> "auto",
   deprecated_option |-> "auto",
   type_alias_option |-> "auto",
   union_option |-> "auto",
   union_paren_option |-> "bare"]

\* Checker.parse_options: the new class variables
parse_options(c, ver, options) ==
  LET c1 == [c EXCEPT !.plugin_name =
               IF options.modern_annotations_include_name
               THEN " (" \o CheckerName \o ")" ELSE ""]
  IN IF ver < 307
     THEN [c1 EXCEPT !.postponed_option = "never",
                     !.deprecated_option = "never",
                     !.type_alias_option = "never",
                     !.union_option = "never",
                     !.union_paren_option = "never"]
     ELSE [c1 EXCEPT !.postponed_option = options.modern_annotations_postponed,
                     !.deprecated_option = options.modern_annotations_deprecated,
                     !.type_alias_option = options.modern_annotations_type_alias,
                     !.union_option = options.modern_annotations_union,
                     !.union_paren_option = options.modern_annotations_union_paren]

\* AnnotationChecker.__init__
AnnotationChecker_init(c, tree) ==
  [tree |-> tree,
   postponed |-> ("always" = c.postponed_option),
   deprecated |-> ("always" = c.deprecated_option),
   type_alias |-> ("always" = c.type_alias_option),
   union |-> ("always" = c.union_option)]

\* fault: deprecated=auto looks at the runtime version only, not at the future import
ResolveFlags_deprecated_by_version(self, c, ver, enabled) ==
  LET s1 == IF ~self.postponed /\ "never" # c.postponed_option
            THEN [self EXCEPT !.postponed = enabled] ELSE self
      s2 == IF ~s1.deprecated /\ "never" # c.deprecated_option
            THEN [s1 EXCEPT !.deprecated = (ver >= 309)] ELSE s1
      s3 == IF ~s2.type_alias /\ "never" # c.type_alias_option
            THEN [s2 EXCEPT !.type_alias = (ver < 309)] ELSE s2
      s5 == IF ~s3.union /\ "never" # c.union_option
            THEN [s3 EXCEPT !.union = (enabled \/ ver >= 310)] ELSE s3
  IN s5

\* fault: the union flag in auto mode is taken from the deprecated flag as it stood
\* when the iteration began, before this iteration resolved it
ResolveFlags_union_from_stale_deprecated(self, c, ver, enabled) ==
  LET s1 == IF ~self.postponed /\ "never" # c.postponed_option
            THEN [self EXCEPT !.postponed = enabled] ELSE self
      s2 == IF ~s1.deprecated /\ "never" # c.deprecated_option
            THEN [s1 EXCEPT !.deprecated = (enabled \/ ver >= 309)] ELSE s1
      s3 == IF ~s2.type_alias /\ "never" # c.type_alias_option
            THEN [s2 EXCEPT !.type_alias = (ver < 309)] ELSE s2
      s5 == IF ~s3.union /\ "never" # c.union_option
            THEN [s3 EXCEPT !.union = self.deprecated] ELSE s3
  IN s5

\* __iter__, the resolution of the mode flags
ResolveFlags(self, c, ver, enabled) ==
  LET s1 == IF ~self.postponed /\ "never" # c.postponed_option
            THEN [self EXCEPT !.postponed = enabled] ELSE self
      s2 == IF ~s1.deprecated /\ "never" # c.deprecated_option
            THEN [s1 EXCEPT !.deprecated = (enabled \/ ver >= 309)] ELSE s1
      s3 == IF ~s2.type_alias /\ "never" # c.type_alias_option
            THEN [s2 EXCEPT !.type_alias = (ver < 309)] ELSE s2
      s4 == IF ~s3.type_alias /\ "never" # c.type_alias_option
            THEN [s3 EXCEPT !.type_alias = (ver < 309)] ELSE s3
      s5 == IF ~s4.union /\ "never" # c.union_option
            THEN [s4 EXCEPT !.union = (enabled \/ ver >= 310)] ELSE s4
  IN s5

Messages(plugin_name, violations) ==
  [i \in 1..Len(violations) |-> ast_node_message(plugin_name, violations[i])]

\* fault: the required bucket is yielded whatever the deprecated flag
Yielded_required_ungated(self, plugin_name, po, di, de, re, ui, un) ==
  (IF self.postponed THEN Messages(plugin_name, po) ELSE <<>>)
  \o (IF self.deprecated
      THEN Messages(plugin_name, DictValuesFlat(di)) \o Messages(plugin_name, de)
      ELSE <<>>)
  \o Messages(plugin_name, re)
  \o (IF self.union
      THEN Messages(plugin_name, DictValuesFlat(ui)) \o Messages(plugin_name, un)
      ELSE <<>>)

\* fault: the union category is yielded before the deprecation category
Yielded_union_first(self, plugin_name, po, di, de, re, ui, un) ==
  (IF self.postponed THEN Messages(plugin_name, po) ELSE <<>>)
  \o (IF self.union
      THEN Messages(plugin_name, DictValuesFlat(ui)) \o Messages(plugin_name, un)
      ELSE <<>>)
  \o (IF self.deprecated
      THEN Messages(plugin_name, DictValuesFlat(di)) \o Messages(plugin_name, de)
             \o Messages(plugin_name, re)
      ELSE <<>>)

\* fault: the union-import groups are yielded under the deprecated flag
Yielded_union_imports_with_deprecated(self, plugin_name, po, di, de, re, ui, un) ==
  (IF self.postponed THEN Messages(plugin_name, po) ELSE <<>>)
  \o (IF self.deprecated
      THEN Messages(plugin_name, DictValuesFlat(di)) \o Messages(plugin_name, de)
             \o Messages(plugin_name, re)
             \o Messages(plugin_name, DictValuesFlat(ui))
      ELSE <<>>)
  \o (IF self.union THEN Messages(plugin_name, un) ELSE <<>>)

\* __iter__, the yields after the traversal
Yielded(self, plugin_name, po, di, de, re, ui, un) ==
  (IF self.postponed THEN Messages(plugin_name, po) ELSE <<>>)
  \o (IF self.deprecated
      THEN Messages(plugin_name, DictValuesFlat(di))
             \o Messages(plugin_name, de)
             \o Messages(plugin_name, re)
      ELSE <<>>)
  \o (IF self.union
      THEN Messages(plugin_name, DictValuesFlat(ui))
             \o Messages(plugin_name, un)
      ELSE <<>>)

(***************************************************************************)
(* Inputs                                                                  *)
(***************************************************************************)
\* the running interpreter: 3.7, 3.8, 3.9, 3.10
Versions == {307, 308, 309, 310}

Modes == {"auto", "always", "never"}

MakeOptions(p, d, a, u, include_name) ==
  [modern_annotations_postponed |-> p,
   modern_annotations_deprecated |-> d,
   modern_annotations_type_alias |-> a,
   modern_annotations_union |-> u,
   modern_annotations_union_paren |-> "bare",
   modern_annotations_include_name |-> include_name]

\* option sets handed to parse_options
OptionPool ==
  {MakeOptions("always", "always", "always", "always", FALSE),
   MakeOptions("always", "always", "never", "always", FALSE),
   MakeOptions("never", "never", "never", "never", FALSE),
   MakeOptions("auto", "auto", "auto", "auto", FALSE),
   MakeOptions("always", "never", "always", "always", FALSE),
   MakeOptions("never", "always", "never", "always", FALSE),
   MakeOptions("always", "always", "never", "never", TRUE)}

\* statements the analysed files are made of
StmtPool ==
  {SImportFrom("typing", <<SAlias("Dict", None), SAlias("Union", None),
                           SAlias("Mapping", "TMap")>>),
   SImport(<<SAlias("typing", "typ")>>),
   SImportFrom("typing", <<SAlias("Dict", None), SAlias("Dict", None)>>),
   SImportFrom("__future__", <<SAlias("annotations", None)>>),
   SAssign("A", SSub(SName("Dict"), <<SName("str"), SName("Union")>>)),
   SAssign("B", SSub(SName("dict"), <<SName("TMap"), SName("list")>>)),
   SAnnAssign("x", SSub(SName("Dict"), <<SConst("str", "int"), SName("TMap")>>)),
   SDef(FALSE, "f", <<SArg("a", SConst("str", "int")), SArg("b", SName("TMap"))>>,
        SSub(SName("Union"), <<SName("Dict"), SConst("str", "C")>>),
        <<SAssign("D", SName("Dict"))>>),
   SClass("C", <<SAnnAssign("y", SAttr(SName("typ"), "Dict")),
                 SDef(TRUE, "g", <<SArg("s", SConst("str", "int"))>>,
                      SConst("str", "C"), <<SPass>>)>>)}

\* longest file, in top-level statements
MaxStmts == 2

RECURSIVE SeqsUpTo(_, _)
SeqsUpTo(S, n) ==
  IF n = 0 THEN {<<>>}
  ELSE LET shorter == SeqsUpTo(S, n - 1) IN
       shorter \cup {Append(q, s) : q \in shorter, s \in S}

Sources == SeqsUpTo(StmtPool, MaxStmts)

(***************************************************************************)
(* The run of one checker: parse_options, AnnotationChecker(tree),         *)
(* iteration (flag resolution, the AnnotationVisitor's traversal node by   *)
(* node, the yields).                                                      *)
(***************************************************************************)
visitor_vars == <<allow_type_alias, type_map, postponed, deprecated_imports,
                  deprecated, required, union_imports, union>>

Init ==
  /\ version \in Versions
  /\ cls = ClassDefaults
  /\ checker = None
  /\ future_enabled = FALSE
  /\ pc = "class"
  /\ pending = <<>>
  /\ allow_type_alias = FALSE
  /\ type_map = <<>>
  /\ postponed = <<>>
  /\ deprecated_imports = <<>>
  /\ deprecated = <<>>
  /\ required = <<>>
  /\ union_imports = <<>>
  /\ union = <<>>
  /\ output = <<>>
  /\ probe = None

ParseOptions ==
  /\ pc = "class"
  /\ \E options \in OptionPool : cls' = parse_options(cls, version, options)
  /\ pc' = "parsed"
  /\ UNCHANGED <<version, checker, future_enabled, pending, visitor_vars, output, probe>>

Construct ==
  /\ pc = "parsed"
  /\ \E src \in Sources : checker' = AnnotationChecker_init(cls, ast_parse(src, version))
  /\ pc' = "constructed"
  /\ UNCHANGED <<version, cls, future_enabled, pending, visitor_vars, output, probe>>

\* __iter__ up to the start of annotation_visitor.visit(self.tree)
IterBegin ==
  /\ pc = "constructed"
  /\ LET enabled == FutureVisitor_visit(checker.tree)
         self == ResolveFlags(checker, cls, version, enabled)
     IN /\ future_enabled' = enabled
        /\ checker' = self
        /\ allow_type_alias' = self.type_alias
  /\ type_map' = InitialTypeMap
  /\ postponed' = <<>>
  /\ deprecated_imports' = <<>>
  /\ deprecated' = <<>>
  /\ required' = <<>>
  /\ union_imports' = <<>>
  /\ union' = <<>>
  /\ pending' = VisitOrder(checker.tree, AnnotationVisitorMethods,
                           AnnotationVisitorGenericFirst)
  /\ pc' = "visiting"
  /\ UNCHANGED <<version, cls, output, probe>>

Visiting(kind) == pc = "visiting" /\ pending # <<>> /\ Head(pending).kind = kind

Visit_Import ==
  /\ Visiting("Import")
  /\ type_map' = visit_Import(type_map, Head(pending))
  /\ pending' = Tail(pending)
  /\ UNCHANGED <<version, cls, checker, future_enabled, pc, allow_type_alias, postponed,
                 deprecated_imports, deprecated, required, union_imports, union,
                 output, probe>>

Visit_ImportFrom ==
  /\ Visiting("ImportFrom")
  /\ LET st == visit_ImportFrom([type_map |-> type_map,
                                 deprecated_imports |-> deprecated_imports,
                                 union_imports |-> union_imports], Head(pending))
     IN /\ type_map' = st.type_map
        /\ deprecated_imports' = st.deprecated_imports
        /\ union_imports' = st.union_imports
  /\ pending' = Tail(pending)
  /\ UNCHANGED <<version, cls, checker, future_enabled, pc, allow_type_alias, postponed,
                 deprecated, required, union, output, probe>>

Visit_Assign ==
  /\ Visiting("Assign")
  /\ LET v == visit_Assign([allow_type_alias |-> allow_type_alias,
                            type_map |-> type_map,
                            deprecated_imports |-> deprecated_imports,
                            union_imports |-> union_imports,
                            deprecated |-> deprecated,
                            required |-> required,
                            union |-> union], Head(pending))
     IN /\ deprecated_imports' = v.deprecated_imports
        /\ union_imports' = v.union_imports
        /\ deprecated' = v.deprecated
        /\ required' = v.required
        /\ union' = v.union
  /\ pending' = Tail(pending)
  /\ UNCHANGED <<version, cls, checker, future_enabled, pc, allow_type_alias, type_map,
                 postponed, output, probe>>

\* the three checks every annotation position gets
CheckAnnotation(annotation, message) ==
  /\ postponed' = postponed \o _check_postponed(type_map, annotation, message)
  /\ deprecated' = deprecated \o _check_deprecated(type_map, annotation)
  /\ union' = union \o _check_union(type_map, annotation)
  /\ pending' = Tail(pending)
  /\ UNCHANGED <<version, cls, checker, future_enabled, pc, allow_type_alias, type_map,
                 deprecated_imports, required, union_imports, output, probe>>

Visit_AnnAssign ==
  /\ Visiting("AnnAssign")
  /\ CheckAnnotation(Head(pending).annotation, "POSTPONED_ASSIGN_TYPE")

Visit_arg ==
  /\ Visiting("arg")
  /\ CheckAnnotation(Head(pending).annotation, "POSTPONED_ARG_TYPE")

\* the part of visit_FunctionDef after generic_visit
Visit_FunctionDef ==
  /\ Visiting("FunctionDef")
  /\ CheckAnnotation(Head(pending).returns, "POSTPONED_RETURN_TYPE")

\* __iter__ after the traversal: everything it yields
Emit ==
  /\ pc = "visiting"
  /\ pending = <<>>
  /\ output' = Yielded(checker, cls.plugin_name, postponed, deprecated_imports,
                       deprecated, required, union_imports, union)
  /\ pc' = "done"
  /\ UNCHANGED <<version, cls, checker, future_enabled, pending, visitor_vars, probe>>

Next ==
  \/ ParseOptions
  \/ Construct
  \/ IterBegin
  \/ Visit_Import
  \/ Visit_ImportFrom
  \/ Visit_Assign
  \/ Visit_AnnAssign
  \/ Visit_arg
  \/ Visit_FunctionDef
  \/ Emit

Spec == Init /\ [][Next]_vars

(***************************************************************************)
(* SpecAlias: the two import handlers applied to one import of one         *)
(* recognized member, in each of the four import forms, on a fresh         *)
(* visitor; then the local spelling is resolved as the evaluators do       *)
(* (type_map.get(_name(node))).                                            *)
(***************************************************************************)
RecognizedTypes ==
  ("typing" :> TYPING_TYPES) @@
  ("typing_extensions" :> TYPING_EXTENSION_TYPES) @@
  ("collections" :> COLLECTIONS_TYPES) @@
  ("collections.abc" :> COLLECTIONS_ABC_TYPES) @@
  ("contextlib" :> CONTEXTLIB_TYPES) @@
  ("re" :> RE_TYPES)

\* a dotted module name as the parser sees it: an attribute chain
ModuleExpr ==
  ("typing" :> SName("typing")) @@
  ("typing_extensions" :> SName("typing_extensions")) @@
  ("collections" :> SName("collections")) @@
  ("collections.abc" :> SAttr(SName("collections"), "abc")) @@
  ("contextlib" :> SName("contextlib")) @@
  ("re" :> SName("re"))

\* the local names the renamed forms bind
MemberAlias == "Y"

ModuleAlias == "N"

FreshVisitor ==
  [type_map |-> InitialTypeMap, deprecated_imports |-> <<>>, union_imports |-> <<>>]

Resolve(tm, usage, ver) == TypeMapGet(tm, _name(ParseExpr(usage, 2, 3, ver)))

InitAlias ==
  /\ version \in Versions
  /\ cls = ClassDefaults
  /\ checker = None
  /\ future_enabled = FALSE
  /\ pc = "alias"
  /\ pending = <<>>
  /\ allow_type_alias = FALSE
  /\ type_map = InitialTypeMap
  /\ postponed = <<>>
  /\ deprecated_imports = <<>>
  /\ deprecated = <<>>
  /\ required = <<>>
  /\ union_imports = <<>>
  /\ union = <<>>
  /\ output = <<>>
  /\ \E m \in DOMAIN RecognizedTypes : \E x \in RecognizedTypes[m] :
       probe = [module |-> m, member |-> x, form |-> "none", resolved |-> None]

AliasFrame == UNCHANGED <<version, cls, checker, future_enabled, pending, allow_type_alias,
                          postponed, deprecated, required, union, output>>

ImportedFrom(stmt, usage, form) ==
  /\ pc = "alias"
  /\ LET node == ParseStmt(stmt, 1, 0, version)
         st == visit_ImportFrom(FreshVisitor, node)
     IN /\ type_map' = st.type_map
        /\ deprecated_imports' = st.deprecated_imports
        /\ union_imports' = st.union_imports
        /\ probe' = [probe EXCEPT !.form = form,
                                  !.resolved = Resolve(st.type_map, usage, version)]
  /\ pc' = "resolved"
  /\ AliasFrame

ImportedModule(stmt, usage, form) ==
  /\ pc = "alias"
  /\ LET node == ParseStmt(stmt, 1, 0, version)
         tm == visit_Import(InitialTypeMap, node)
     IN /\ type_map' = tm
        /\ probe' = [probe EXCEPT !.form = form,
                                  !.resolved = Resolve(tm, usage, version)]
  /\ pc' = "resolved"
  /\ UNCHANGED <<deprecated_imports, union_imports>>
  /\ AliasFrame

\* from M import X; X
FromImport ==
  ImportedFrom(SImportFrom(probe.module, <<SAlias(probe.member, None)>>),
               SName(probe.member), "from")

\* from M import X as Y; Y
FromImportAs ==
  ImportedFrom(SImportFrom(probe.module, <<SAlias(probe.member, MemberAlias)>>),
               SName(MemberAlias), "from_as")

\* import M; M.X
ImportModule ==
  ImportedModule(SImport(<<SAlias(probe.module, None)>>),
                 SAttr(ModuleExpr[probe.module], probe.member), "import")

\* import M as N; N.X
ImportModuleAs ==
  ImportedModule(SImport(<<SAlias(probe.module, ModuleAlias)>>),
                 SAttr(SName(ModuleAlias), probe.member), "import_as")

\* names the recognized modules export that are in none of the member tables
UnrecognizedMembers == {"TYPE_CHECKING", "cast"}

\* from M import U / from M import U as dict, U not a recognized member of M
FromImportUnrecognized ==
  /\ pc = "alias"
  /\ \E u \in UnrecognizedMembers : \E asname \in {None, "dict"} :
       LET node == ParseStmt(SImportFrom(probe.module, <<SAlias(u, asname)>>),
                             1, 0, version)
           st == visit_ImportFrom(FreshVisitor, node)
           bound == IF asname = None THEN u ELSE asname
       IN /\ type_map' = st.type_map
          /\ deprecated_imports' = st.deprecated_imports
          /\ union_imports' = st.union_imports
          /\ probe' = [probe EXCEPT !.member = u, !.form = "from_unrecognized",
                                    !.resolved = Resolve(st.type_map, SName(bound), version)]
  /\ pc' = "unrecognized"
  /\ AliasFrame

\* import M; M.U, U not a recognized member of M
ImportModuleUnrecognized ==
  /\ pc = "alias"
  /\ \E u \in UnrecognizedMembers :
       LET node == ParseStmt(SImport(<<SAlias(probe.module, None)>>), 1, 0, version)
           tm == visit_Import(InitialTypeMap, node)
       IN /\ type_map' = tm
          /\ probe' = [probe EXCEPT !.member = u, !.form = "import_unrecognized",
                                    !.resolved = Resolve(tm, SAttr(ModuleExpr[probe.module], u),
                                                         version)]
  /\ pc' = "unrecognized"
  /\ UNCHANGED <<deprecated_imports, union_imports>>
  /\ AliasFrame

NextAlias ==
  \/ FromImport
  \/ FromImportAs
  \/ ImportModule
  \/ ImportModuleAs
  \/ FromImportUnrecognized
  \/ ImportModuleUnrecognized

SpecAlias == InitAlias /\ [][NextAlias]_vars

(***************************************************************************)
(* SpecEval: the rule evaluators and retraction as functions of one        *)
(* annotation expression, under the alias map and import groups that a     *)
(* fixed set of imports leaves behind.                                     *)
(***************************************************************************)
\* from typing import Dict as TDict, Union, Literal as Lit
\* import typing as typ
EvalImports ==
  <<SImportFrom("typing", <<SAlias("Dict", "TDict"), SAlias("Union", None),
                            SAlias("Literal", "Lit")>>),
    SImport(<<SAlias("typing", "typ")>>)>>

EvalVisitor(ver) ==
  LET nodes == ast_parse(EvalImports, ver)
      st == visit_ImportFrom(FreshVisitor, nodes[1])
  IN [st EXCEPT !.type_map = visit_Import(st.type_map, nodes[2])]

Leaves ==
  {SName("TDict"), SName("Union"), SName("dict"), SName("int"), SName("Dict"),
   SAttr(SName("typ"), "List"),
   SConst("str", "int"), SConst("int", "5"), SConst("None", "None"),
   SConst("Ellipsis", "..."), SConst("bool", "True"), SConst("bytes", "x"),
   SList(<<SName("TDict")>>), SBinOp(SName("Union"), SConst("None", "None"))}

Heads ==
  {SName("Lit"), SAttr(SName("typ"), "Literal"), SName("TDict"), SName("Union"),
   SName("dict")}

PairHeads == {SName("Lit"), SName("TDict")}

PairFirst == {SConst("str", "int")}

\* deepest nesting of subscripts in an annotation
MaxDepth == 2

RECURSIVE Exprs(_)
Exprs(d) ==
  IF d = 0 THEN Leaves
  ELSE LET inner == Exprs(d - 1) IN
       Leaves
       \cup {SSub(h, <<a>>) : h \in Heads, a \in inner}
       \cup {SSub(h, <<b, a>>) : h \in PairHeads, b \in PairFirst, a \in inner}

InitEval ==
  /\ version \in Versions
  /\ cls = ClassDefaults
  /\ checker = None
  /\ future_enabled = FALSE
  /\ pc = "eval"
  /\ pending = <<>>
  /\ allow_type_alias = FALSE
  /\ type_map = EvalVisitor(version).type_map
  /\ deprecated_imports = EvalVisitor(version).deprecated_imports
  /\ union_imports = EvalVisitor(version).union_imports
  /\ postponed = <<>>
  /\ deprecated = <<>>
  /\ required = <<>>
  /\ union = <<>>
  /\ output = <<>>
  /\ \E t \in Exprs(MaxDepth) :
       probe = [src |-> t, annotation |-> ParseExpr(t, 3, 3, version)]

EvalFrame == UNCHANGED <<version, cls, checker, future_enabled, pending, allow_type_alias,
                         type_map, required, output, probe>>

\* flake8_postponed_annotations, AnnotationVisitor._check_annotation: the postponed
\* rule of the historical engine, yielding (node, message, value)
RECURSIVE _check_annotation(_, _)
RECURSIVE AnnotationEach(_, _)
_check_annotation(annotation, message) ==
  IF annotation.kind = "Constant"
  THEN IF annotation.vt = "None"
       THEN <<>>
       ELSE <<[node |-> NodeRef(annotation), message |-> message,
               value |-> annotation.value]>>
  ELSE IF annotation.kind = "Subscript"
  THEN AnnotationEach(SliceItems(annotation), message)
  ELSE IF annotation.kind = "Str"
  THEN <<[node |-> NodeRef(annotation), message |-> message, value |-> annotation.s]>>
  ELSE <<>>

AnnotationEach(items, message) ==
  IF items = <<>> THEN <<>>
  ELSE _check_annotation(Head(items), message) \o AnnotationEach(Tail(items), message)

\* both engines evaluate the same annotation of an annotated assignment: the
\* historical engine's results are kept in output, the current engine's in postponed
Apply_check_annotation ==
  /\ pc = "eval"
  /\ output' = _check_annotation(probe.annotation, "ASSIGN_TYPE")
  /\ postponed' = _check_postponed(type_map, probe.annotation, "POSTPONED_ASSIGN_TYPE")
  /\ pc' = "_check_annotation"
  /\ UNCHANGED <<version, cls, checker, future_enabled, pending, allow_type_alias,
                 type_map, probe, deprecated, required, union, deprecated_imports,
                 union_imports>>

Apply_check_postponed ==
  /\ pc = "eval"
  /\ postponed' = _check_postponed(type_map, probe.annotation, "POSTPONED_ASSIGN_TYPE")
  /\ pc' = "_check_postponed"
  /\ UNCHANGED <<deprecated, union, deprecated_imports, union_imports>>
  /\ EvalFrame

Apply_check_deprecated ==
  /\ pc = "eval"
  /\ deprecated' = _check_deprecated(type_map, probe.annotation)
  /\ pc' = "_check_deprecated"
  /\ UNCHANGED <<postponed, union, deprecated_imports, union_imports>>
  /\ EvalFrame

Apply_check_union ==
  /\ pc = "eval"
  /\ union' = _check_union(type_map, probe.annotation)
  /\ pc' = "_check_union"
  /\ UNCHANGED <<postponed, deprecated, deprecated_imports, union_imports>>
  /\ EvalFrame

Apply_check_required ==
  /\ pc = "eval"
  /\ required' = _check_required(type_map, probe.annotation)
  /\ pc' = "_check_required"
  /\ UNCHANGED <<version, cls, checker, future_enabled, pending, allow_type_alias,
                 type_map, output, probe, postponed, deprecated, union,
                 deprecated_imports, union_imports>>

Apply_remove_import_violations ==
  /\ pc = "eval"
  /\ LET im == _remove_import_violations(
                 [deprecated_imports |-> deprecated_imports,
                  union_imports |-> union_imports], probe.annotation)
     IN /\ deprecated_imports' = im.deprecated_imports
        /\ union_imports' = im.union_imports
  /\ pc' = "_remove_import_violations"
  /\ UNCHANGED <<postponed, deprecated, union>>
  /\ EvalFrame

NextEval ==
  \/ Apply_check_postponed
  \/ Apply_check_deprecated
  \/ Apply_check_union
  \/ Apply_check_required
  \/ Apply_remove_import_violations
  \/ Apply_check_annotation

SpecEval == InitEval /\ [][NextEval]_vars

(***************************************************************************)
(* Repeated and interleaved runs: one checker iterated more than once, a   *)
(* second checker built from the same class, and parse_options called      *)
(* again between construction and iteration.                               *)
(***************************************************************************)
\* the traversal as a function of the visited nodes and the alias-mode flag alone
RECURSIVE Traverse(_, _)
Traverse(v, nodes) ==
  IF nodes = <<>> THEN v
  ELSE LET node == Head(nodes)
           Checked(annotation, message) ==
             [v EXCEPT !.postponed = v.postponed
                                       \o _check_postponed(v.type_map, annotation, message),
                       !.deprecated = v.deprecated \o _check_deprecated(v.type_map, annotation),
                       !.union = v.union \o _check_union(v.type_map, annotation)]
           v1 == CASE node.kind = "Import" ->
                        [v EXCEPT !.type_map = visit_Import(v.type_map, node)]
                   [] node.kind = "ImportFrom" ->
                        LET st == visit_ImportFrom(
                                    [type_map |-> v.type_map,
                                     deprecated_imports |-> v.deprecated_imports,
                                     union_imports |-> v.union_imports], node)
                        IN [v EXCEPT !.type_map = st.type_map,
                                     !.deprecated_imports = st.deprecated_imports,
                                     !.union_imports = st.union_imports]
                   [] node.kind = "Assign" ->
                        LET a == visit_Assign(
                                   [allow_type_alias |-> v.allow_type_alias,
                                    type_map |-> v.type_map,
                                    deprecated_imports |-> v.deprecated_imports,
                                    union_imports |-> v.union_imports,
                                    deprecated |-> v.deprecated,
                                    required |-> v.required,
                                    union |-> v.union], node)
                        IN [v EXCEPT !.deprecated_imports = a.deprecated_imports,
                                     !.union_imports = a.union_imports,
                                     !.deprecated = a.deprecated,
                                     !.required = a.required,
                                     !.union = a.union]
                   [] node.kind = "AnnAssign" ->
                        Checked(node.annotation, "POSTPONED_ASSIGN_TYPE")
                   [] node.kind = "arg" -> Checked(node.annotation, "POSTPONED_ARG_TYPE")
                   [] node.kind = "FunctionDef" ->
                        Checked(node.returns, "POSTPONED_RETURN_TYPE")
                   [] OTHER -> v
       IN Traverse(v1, Tail(nodes))

\* AnnotationVisitor.__init__: empty buckets, the built-in alias map
AnnotationVisitor_init(type_alias) ==
  [allow_type_alias |-> type_alias, type_map |-> InitialTypeMap, postponed |-> <<>>,
   deprecated_imports |-> <<>>, deprecated |-> <<>>, required |-> <<>>,
   union_imports |-> <<>>, union |-> <<>>]

\* one whole __iter__: the future scan, the flag resolution against the class
\* options as they are now, a fresh visitor's traversal, the yielded messages
AnnotationChecker_iter(self, c, ver) ==
  LET enabled == FutureVisitor_visit(self.tree)
      s == ResolveFlags(self, c, ver, enabled)
      v == Traverse(AnnotationVisitor_init(s.type_alias),
                    VisitOrder(self.tree, AnnotationVisitorMethods,
                               AnnotationVisitorGenericFirst))
  IN [self |-> s, enabled |-> enabled, visitor |-> v,
      output |-> Yielded(s, c.plugin_name, v.postponed, v.deprecated_imports,
                         v.deprecated, v.required, v.union_imports, v.union)]

RunOptionPool ==
  {MakeOptions("auto", "auto", "auto", "auto", FALSE),
   MakeOptions("always", "always", "always", "always", TRUE),
   MakeOptions("never", "never", "never", "never", FALSE)}

RunStmtPool ==
  {SImportFrom("typing", <<SAlias("Dict", None), SAlias("Union", None)>>),
   SImportFrom("__future__", <<SAlias("annotations", None)>>),
   SAnnAssign("x", SSub(SName("Union"), <<SConst("str", "int"), SName("Dict")>>)),
   SAssign("A", SSub(SName("Dict"), <<SName("str"), SName("Union")>>))}

RunSources == SeqsUpTo(RunStmtPool, MaxStmts)

\* iterations of one checker
MaxRuns == 2

\* the file the second checker is given when it is not the first checker's file
OtherSource ==
  <<SImportFrom("typing", <<SAlias("Dict", None), SAlias("Union", None)>>),
    SAnnAssign("x", SSub(SName("Union"), <<SConst("str", "int"), SName("Dict")>>))>>

InitRuns ==
  /\ version \in Versions
  /\ cls = ClassDefaults
  /\ checker = None
  /\ future_enabled = FALSE
  /\ pc = "class"
  /\ pending = <<>>
  /\ allow_type_alias = FALSE
  /\ type_map = <<>>
  /\ postponed = <<>>
  /\ deprecated_imports = <<>>
  /\ deprecated = <<>>
  /\ required = <<>>
  /\ union_imports = <<>>
  /\ union = <<>>
  /\ output = <<>>
  /\ probe = None

\* the host's one call of parse_options before any checker exists
RunParseOptions ==
  /\ pc = "class"
  /\ \E options \in RunOptionPool : cls' = parse_options(cls, version, options)
  /\ pc' = "parsed"
  /\ UNCHANGED <<version, checker, future_enabled, pending, visitor_vars, output, probe>>

\* the checker under observation is constructed; the class options in force at
\* that moment and the history of what follows are kept for the properties
RunConstruct ==
  /\ pc = "parsed"
  /\ \E source \in RunSources : checker' = AnnotationChecker_init(cls, ast_parse(source, version))
  /\ probe' = [options |-> cls, outputs |-> <<>>, others |-> <<>>, reparsed |-> FALSE]
  /\ pc' = "constructed"
  /\ UNCHANGED <<version, cls, future_enabled, pending, visitor_vars, output>>

\* parse_options is a classmethod: a later call rewrites the class attributes
\* that every existing instance reads
Reparse ==
  /\ pc \in {"constructed", "iterated"}
  /\ ~probe.reparsed
  /\ \E options \in RunOptionPool :
       /\ parse_options(cls, version, options) # cls
       /\ cls' = parse_options(cls, version, options)
  /\ probe' = [probe EXCEPT !.reparsed = TRUE]
  /\ UNCHANGED <<version, checker, future_enabled, pc, pending, visitor_vars, output>>

\* one iteration of the checker under observation
Iterate ==
  /\ pc \in {"constructed", "iterated"}
  /\ Len(probe.outputs) < MaxRuns
  /\ \E run \in {AnnotationChecker_iter(checker, cls, version)} :
        /\ checker' = run.self
        /\ future_enabled' = run.enabled
        /\ allow_type_alias' = run.visitor.allow_type_alias
        /\ type_map' = run.visitor.type_map
        /\ postponed' = run.visitor.postponed
        /\ deprecated_imports' = run.visitor.deprecated_imports
        /\ deprecated' = run.visitor.deprecated
        /\ required' = run.visitor.required
        /\ union_imports' = run.visitor.union_imports
        /\ union' = run.visitor.union
        /\ output' = run.output
        /\ probe' = [probe EXCEPT !.outputs = Append(@, run.output)]
  /\ pc' = "iterated"
  /\ UNCHANGED <<version, cls, pending>>

\* another checker is constructed from the same class and iterated, on the same
\* file or on another one; it has its own flags and its own visitor
OtherChecker ==
  /\ pc \in {"constructed", "iterated"}
  /\ probe.others = <<>>
  /\ \E tree \in {checker.tree, ast_parse(OtherSource, version)} :
       \E run \in {AnnotationChecker_iter(AnnotationChecker_init(cls, tree), cls, version)} :
          probe' = [probe EXCEPT !.others =
                      Append(@, [tree |-> tree, options |-> cls, output |-> run.output])]
  /\ UNCHANGED <<version, cls, checker, future_enabled, pc, pending, visitor_vars, output>>

NextRuns ==
  \/ RunParseOptions
  \/ RunConstruct
  \/ Reparse
  \/ Iterate
  \/ OtherChecker

SpecRuns == InitRuns /\ [][NextRuns]_vars

(***************************************************************************)
(* The future scan on its own: FutureVisitor taken one import-from at a    *)
(* time over files that hold the future import at top level and nested.    *)
(***************************************************************************)
FutureStmtPool ==
  {SImportFrom("__future__", <<SAlias("annotations", None)>>),
   SImportFrom("__future__", <<SAlias("division", None)>>),
   SImportFrom("typing", <<SAlias("Dict", None)>>),
   SDef(FALSE, "f", <<>>, SName("int"),
        <<SImportFrom("__future__", <<SAlias("annotations", None)>>)>>),
   SClass("K", <<SImportFrom("__future__", <<SAlias("division", None),
                                              SAlias("annotations", None)>>)>>),
   SDef(FALSE, "h", <<>>, SName("int"), <<SPass>>)}

FutureSources == SeqsUpTo(FutureStmtPool, MaxStmts)

\* future_visitor = FutureVisitor(), about to visit the tree
InitFuture ==
  /\ version \in Versions
  /\ cls = ClassDefaults
  /\ \E src \in FutureSources :
       /\ checker = AnnotationChecker_init(ClassDefaults, ast_parse(src, version))
       /\ pending = VisitOrder(ast_parse(src, version), FutureVisitorMethods, {})
  /\ future_enabled = FALSE
  /\ pc = "scanning"
  /\ allow_type_alias = FALSE
  /\ type_map = <<>>
  /\ postponed = <<>>
  /\ deprecated_imports = <<>>
  /\ deprecated = <<>>
  /\ required = <<>>
  /\ union_imports = <<>>
  /\ union = <<>>
  /\ output = <<>>
  /\ probe = None

\* the next import-from statement the generic traversal reaches
Future_visit_ImportFrom ==
  /\ pc = "scanning"
  /\ pending # <<>>
  /\ future_enabled' = FutureVisitor_visit_ImportFrom(future_enabled, Head(pending))
  /\ pending' = Tail(pending)
  /\ UNCHANGED <<version, cls, checker, pc, visitor_vars, output, probe>>

\* future_visitor.visit returns; __iter__ goes on to read future_visitor.enabled
Future_visit_returns ==
  /\ pc = "scanning"
  /\ pending = <<>>
  /\ pc' = "scanned"
  /\ UNCHANGED <<version, cls, checker, future_enabled, pending, visitor_vars, output, probe>>

NextFuture ==
  \/ Future_visit_ImportFrom
  \/ Future_visit_returns

SpecFuture == InitFuture /\ [][NextFuture]_vars

(***************************************************************************)
(* Recursive descent call by call: a stack of (procedure, node) frames.    *)
(* A step runs the body of the call on top of the stack, without the       *)
(* recursive calls it makes, and puts those calls on the stack in the      *)
(* order the body makes them.  Python runs the calls to completion, one    *)
(* after the other, hence the weak fairness of the step.                   *)
(***************************************************************************)
Procedures ==
  {"_check_postponed", "_check_deprecated", "_check_required", "_check_union",
   "_remove_import_violations", "_name"}

RECURSIVE DescentExprs(_)
DescentExprs(d) ==
  LET leaves == {SName("TDict"), SName("dict"), SConst("str", "int"),
                 SAttr(SName("typ"), "List")}
  IN IF d = 0 THEN leaves
     ELSE LET inner == DescentExprs(d - 1) IN
          leaves
          \cup {SSub(h, <<a>>) : h \in {SName("TDict"), SName("Lit")}, a \in inner}
          \cup {SSub(SName("TDict"), <<SConst("str", "int"), a>>) : a \in inner}

\* a node as the body of one call sees it when its recursive calls are left out:
\* a subscript keeps its head and loses its arguments
Childless(node) ==
  IF node.kind = "Subscript"
  THEN [node EXCEPT !.slice = [kind |-> "Tuple", elts |-> <<>>,
                               lineno |-> node.lineno, col_offset |-> node.col_offset]]
  ELSE node

\* fault: a subscript whose slice is not a tuple is descended into by a call on the
\* subscript itself instead of on its slice value
Callees_on_annotation(procedure, tm, node) ==
  IF procedure = "_name"
  THEN IF node.kind \in {"Subscript", "Attribute"} THEN <<node.value>> ELSE <<>>
  ELSE IF node.kind # "Subscript" THEN <<>>
  ELSE IF SliceValue(node).kind = "Tuple" THEN SliceValue(node).elts ELSE <<node>>

\* the arguments of the recursive calls the body of procedure(node) makes, in order
Callees(procedure, tm, node) ==
  IF procedure = "_name"
  THEN IF node.kind \in {"Subscript", "Attribute"} THEN <<node.value>> ELSE <<>>
  ELSE IF node.kind # "Subscript" THEN <<>>
  ELSE IF /\ procedure = "_check_postponed"
          /\ node.value.kind \in {"Name", "Attribute"}
          /\ TypeMapGet(tm, _name(node)) \in LITERALS
       THEN <<>>
       ELSE SliceItems(node)

\* a call: the procedure, where its argument stands, its argument
Frame(procedure, node) == <<procedure, NodeRef(node), node>>

InitDescent ==
  /\ version \in Versions
  /\ cls = ClassDefaults
  /\ checker = None
  /\ future_enabled = FALSE
  /\ pc = "descent"
  /\ allow_type_alias = FALSE
  /\ type_map = EvalVisitor(version).type_map
  /\ deprecated_imports = EvalVisitor(version).deprecated_imports
  /\ union_imports = EvalVisitor(version).union_imports
  /\ postponed = <<>>
  /\ deprecated = <<>>
  /\ required = <<>>
  /\ union = <<>>
  /\ output = <<>>
  /\ \E t \in DescentExprs(MaxDepth) : \E procedure \in Procedures :
       /\ probe = [procedure |-> procedure, annotation |-> ParseExpr(t, 3, 3, version),
                   name |-> ""]
       /\ pending = <<Frame(procedure, ParseExpr(t, 3, 3, version))>>

\* the call on top of the stack runs
Call(procedure) ==
  /\ pc = "descent"
  /\ pending # <<>>
  /\ Head(pending)[1] = procedure
  /\ LET node == Head(pending)[3]
         body == Childless(node)
         calls == Callees(procedure, type_map, node)
     IN /\ pending' = [i \in 1..Len(calls) |-> Frame(procedure, calls[i])] \o Tail(pending)
        /\ postponed' = IF procedure = "_check_postponed"
                        THEN postponed \o _check_postponed(type_map, body,
                                                           "POSTPONED_ASSIGN_TYPE")
                        ELSE postponed
        /\ deprecated' = IF procedure = "_check_deprecated"
                         THEN deprecated \o _check_deprecated(type_map, body)
                         ELSE deprecated
        /\ required' = IF procedure = "_check_required"
                       THEN required \o _check_required(type_map, body)
                       ELSE required
        /\ union' = IF procedure = "_check_union"
                    THEN union \o _check_union(type_map, body)
                    ELSE union
        /\ \E im \in {IF procedure = "_remove_import_violations"
                      THEN _remove_import_violations(
                             [deprecated_imports |-> deprecated_imports,
                              union_imports |-> union_imports], body)
                      ELSE [deprecated_imports |-> deprecated_imports,
                            union_imports |-> union_imports]} :
             /\ deprecated_imports' = im.deprecated_imports
             /\ union_imports' = im.union_imports
        /\ probe' = IF procedure = "_name"
                    THEN [probe EXCEPT !.name =
                            CASE node.kind = "Name" -> node.id \o @
                              [] node.kind = "Attribute" -> "." \o node.attr \o @
                              [] OTHER -> @]
                    ELSE probe
  /\ UNCHANGED <<version, cls, checker, future_enabled, pc, allow_type_alias, type_map,
                 output>>

\* no call is left: the outermost call returns
Return ==
  /\ pc = "descent"
  /\ pending = <<>>
  /\ pc' = "returned"
  /\ UNCHANGED <<version, cls, checker, future_enabled, pending, visitor_vars, output, probe>>

NextDescent ==
  \/ \E procedure \in Procedures : Call(procedure)
  \/ Return

SpecDescent == InitDescent /\ [][NextDescent]_vars /\ WF_vars(NextDescent)

(***************************************************************************)
(* Claims                                                                  *)
(***************************************************************************)
\* C1: for every recognized module M and recognized member X, each of the four
\* import forms (from M import X / from M import X as Y / import M, M.X /
\* import M as N, N.X) makes the local spelling resolve to the canonical M.X.
C1_AllFormsResolveCanonical ==
  pc = "resolved" => probe.resolved = probe.module \o "." \o probe.member

\* every node a visit_ method of the AnnotationVisitor runs on, for the checker's tree
AllVisited ==
  VisitOrder(checker.tree, AnnotationVisitorMethods, AnnotationVisitorGenericFirst)

Range(s) == {s[i] : i \in 1..Len(s)}

\* the names (simple or dotted) written anywhere in an expression
RECURSIVE UsedNames(_)
UsedNames(node) ==
  LET Union_(S) == UNION S IN
  CASE node.kind = "Name" -> {node.id}
    [] node.kind = "Attribute" -> {_name(node)} \cup UsedNames(node.value)
    [] node.kind = "Subscript" -> UsedNames(node.value) \cup UsedNames(node.slice)
    [] node.kind = "Index" -> UsedNames(node.value)
    [] node.kind \in {"Tuple", "List"} ->
         Union_({UsedNames(node.elts[i]) : i \in 1..Len(node.elts)})
    [] node.kind = "BinOp" -> UsedNames(node.left) \cup UsedNames(node.right)
    [] OTHER -> {}

\* typing names whose from-import is flagged
FlaggedImport(type_name) ==
  \/ type_name \in DOMAIN DEPRECATED_TYPES
  \/ type_name \in DOMAIN REPLACED_TYPES
  \/ type_name = "typing.Union"

\* the import-level diagnostic for importing typing.<name> at an import statement
ImportDiagnostic(node, name) ==
  LET type_name == "typing." \o name
      message == IF type_name \in DOMAIN REPLACED_TYPES THEN REPLACED_TYPES[type_name][2]
                 ELSE IF type_name \in DOMAIN DEPRECATED_TYPES
                 THEN DEPRECATED_TYPES[type_name][2]
                 ELSE "UNION_IMPORT"
      replacement == IF type_name \in DOMAIN REPLACED_TYPES THEN REPLACED_TYPES[type_name][1]
                     ELSE IF type_name \in DOMAIN DEPRECATED_TYPES
                     THEN DEPRECATED_TYPES[type_name][1]
                     ELSE ""
  IN <<node.lineno, node.col_offset,
       MessageCode(message) \o cls.plugin_name \o " "
         \o MessageText(message, [name |-> type_name, replacement |-> replacement]),
       "AnnotationChecker">>

\* the flagged from-imports of the tree that bind the local name a: (node, name) pairs
FlaggedBindings(a) ==
  {<<n, k>> \in {<<n, k>> \in (1..Len(AllVisited)) \X (1..3) :
                    /\ AllVisited[n].kind = "ImportFrom"
                    /\ k <= Len(AllVisited[n].names)} :
     /\ AllVisited[n].module = "typing"
     /\ ImportName(AllVisited[n].names[k]) = a
     /\ FlaggedImport("typing." \o AllVisited[n].names[k].name)}

\* the names used on the right-hand side of some plain assignment of the tree
AliasedNames ==
  UNION {UsedNames(AllVisited[n].value) :
           n \in {m \in 1..Len(AllVisited) : AllVisited[m].kind = "Assign"}}

\* C2: in alias mode, a flagged typing name used on the right-hand side of a plain
\* assignment has no import-level diagnostic in the final output, wherever its
\* import statements and the assignment stand in the tree.
C2_RetractionAnyOrder ==
  (pc = "done" /\ allow_type_alias) =>
    \A a \in AliasedNames :
      \A b \in FlaggedBindings(a) :
        ImportDiagnostic(AllVisited[b[1]], AllVisited[b[1]].names[b[2]].name)
          \notin Range(output)

\* the locations of a node and of everything written below it
RECURSIVE SubNodes(_)
SubNodes(node) ==
  LET Union_(S) == UNION S
      own == IF node.kind \in {"Index", "NoneType"} THEN {} ELSE {NodeRef(node)}
  IN CASE node.kind = "Attribute" -> own \cup SubNodes(node.value)
       [] node.kind = "Subscript" -> own \cup SubNodes(node.value) \cup SubNodes(node.slice)
       [] node.kind = "Index" -> SubNodes(node.value)
       [] node.kind \in {"Tuple", "List"} ->
            own \cup Union_({SubNodes(node.elts[i]) : i \in 1..Len(node.elts)})
       [] node.kind = "BinOp" -> own \cup SubNodes(node.left) \cup SubNodes(node.right)
       [] OTHER -> own

\* a subscript whose head is a name or dotted name resolving to a Literal construct
IsLiteralSubscript(tm, node) ==
  /\ node.kind = "Subscript"
  /\ node.value.kind \in {"Name", "Attribute"}
  /\ TypeMapGet(tm, _name(node)) \in {"typing.Literal", "typing_extensions.Literal"}

\* the locations inside the arguments of the Literal[...] subscripts of an expression
RECURSIVE LiteralArguments(_, _)
LiteralArguments(tm, node) ==
  LET Union_(S) == UNION S IN
  CASE IsLiteralSubscript(tm, node) -> SubNodes(node.slice)
    [] node.kind = "Subscript" -> LiteralArguments(tm, node.slice)
    [] node.kind = "Index" -> LiteralArguments(tm, node.value)
    [] node.kind \in {"Tuple", "List"} ->
         Union_({LiteralArguments(tm, node.elts[i]) : i \in 1..Len(node.elts)})
    [] node.kind = "BinOp" ->
         LiteralArguments(tm, node.left) \cup LiteralArguments(tm, node.right)
    [] OTHER -> {}

\* the result of the evaluator that was applied to the probe annotation
EvaluatorResult ==
  CASE pc = "_check_postponed" -> postponed
    [] pc = "_check_deprecated" -> deprecated
    [] pc = "_check_required" -> required
    [] pc = "_check_union" -> union
    [] OTHER -> <<>>

\* C3: whichever of the four rule evaluators is applied to an annotation, none of
\* the use-diagnostics it yields is located inside the arguments of a subscript
\* whose head resolves to typing.Literal or typing_extensions.Literal.
C3_LiteralExemptAllEvaluators ==
  pc \in {"_check_postponed", "_check_deprecated", "_check_required", "_check_union"} =>
    \A i \in 1..Len(EvaluatorResult) :
      EvaluatorResult[i].node \notin LiteralArguments(type_map, probe.annotation)

\* the nodes the descent through generic arguments reaches: the annotation, and
\* for a subscript the members of its arguments, except below a Literal[...]
RECURSIVE Descent(_, _, _)
RECURSIVE DescentEach(_, _, _)
Descent(tm, node, skip_literals) ==
  IF node.kind = "Subscript" /\ ~(skip_literals /\ IsLiteralSubscript(tm, node))
  THEN <<node>> \o DescentEach(tm, SliceItems(node), skip_literals)
  ELSE <<node>>

DescentEach(tm, items, skip_literals) ==
  IF items = <<>> THEN <<>>
  ELSE Descent(tm, Head(items), skip_literals)
         \o DescentEach(tm, Tail(items), skip_literals)

\* a quoted-text node, and the text it holds
IsStringNode(node) ==
  \/ node.kind = "Str"
  \/ node.kind = "Constant" /\ node.vt = "str"

StringValue(node) == IF node.kind = "Str" THEN node.s ELSE node.value

\* one postponed diagnostic per quoted-text node of a sequence of nodes, in order
RECURSIVE QuotedDiagnostics(_, _)
QuotedDiagnostics(nodes, message) ==
  IF nodes = <<>> THEN <<>>
  ELSE (IF IsStringNode(Head(nodes))
        THEN <<[node |-> NodeRef(Head(nodes)), message |-> message,
                kwargs |-> [value |-> StringValue(Head(nodes))]]>>
        ELSE <<>>)
       \o QuotedDiagnostics(Tail(nodes), message)

\* C4: the postponed evaluator yields exactly one diagnostic per quoted-text node
\* reached by the descent, at the string's location and carrying its value, and
\* nothing for None, Ellipsis, numbers, booleans or bytes.
C4_PostponedExactlyStrings ==
  pc = "_check_postponed" =>
    postponed = QuotedDiagnostics(Descent(type_map, probe.annotation, TRUE),
                                  "POSTPONED_ASSIGN_TYPE")

\* the import groups as (alias, location, text) triples
Rendered(d) ==
  UNION {{<<d[i].key, d[i].value[j].node,
            MessageText(d[i].value[j].message, d[i].value[j].kwargs)>> :
            j \in 1..Len(d[i].value)} : i \in 1..Len(d)}

\* the text of the import-level diagnostic of each kind
RemoveFromImport(type_name) == "'" \o type_name \o "' is deprecated, remove from import"

ReplaceImport(type_name, replacement) ==
  "'" \o type_name \o "' is deprecated, replace with '" \o replacement \o "'"

\* what a from-import of typing adds to the deprecated-import groups
NewDeprecatedImports(node) ==
  {<<ImportName(node.names[k]), NodeRef(node),
     IF "typing." \o node.names[k].name \in DOMAIN REPLACED_TYPES
     THEN ReplaceImport("typing." \o node.names[k].name,
                        REPLACED_TYPES["typing." \o node.names[k].name][1])
     ELSE RemoveFromImport("typing." \o node.names[k].name)>> :
     k \in {j \in 1..Len(node.names) :
              "typing." \o node.names[j].name
                 \in DOMAIN DEPRECATED_TYPES \cup DOMAIN REPLACED_TYPES}}

\* what a from-import of typing adds to the union-import groups
NewUnionImports(node) ==
  {<<ImportName(node.names[k]), NodeRef(node), RemoveFromImport("typing.Union")>> :
     k \in {j \in 1..Len(node.names) : node.names[j].name = "Union"}}

\* C5: a step that visits `from typing import ...` adds to the import groups exactly
\* one entry per imported Deprecated/Replaced name and per Union, keyed by the alias,
\* located at the import statement, of kind "remove from import" (Deprecated, Union)
\* or "replace with" (Replaced); no other step (a whole-module import, a from-import
\* of another module, an annotation) adds an entry to an import group.
C5_ImportGroupsCreatedByTypingFromImports ==
  [][IF Visiting("ImportFrom") /\ Head(pending).module = "typing"
     THEN /\ Rendered(deprecated_imports')
               = Rendered(deprecated_imports) \cup NewDeprecatedImports(Head(pending))
          /\ Rendered(union_imports')
               = Rendered(union_imports) \cup NewUnionImports(Head(pending))
     ELSE /\ Rendered(deprecated_imports') \subseteq Rendered(deprecated_imports)
          /\ Rendered(union_imports') \subseteq Rendered(union_imports)]_vars

\* both kinds of deprecated-import entry and a union-import entry have been created
C5_Witness ==
  /\ pc = "visiting"
  /\ pending = <<>>
  /\ \E e \in Rendered(deprecated_imports) :
       e[1] = "TMap" /\ e[3] = ReplaceImport("typing.Mapping", "collections.abc.Mapping")
  /\ \E e \in Rendered(deprecated_imports) :
       e[1] = "Dict" /\ e[3] = RemoveFromImport("typing.Dict")
  /\ \E e \in Rendered(union_imports) : e[1] = "Union"

\* the spelling of a name, a dotted name or a subscript's head, as written
RECURSIVE Spelled(_)
Spelled(node) ==
  CASE node.kind = "Name" -> node.id
    [] node.kind = "Attribute" -> Spelled(node.value) \o "." \o node.attr
    [] node.kind = "Subscript" -> Spelled(node.value)
    [] OTHER -> ""

\* whether a reached node is a name, dotted name or subscript resolving into a table
ResolvesInto(tm, node, keys) ==
  /\ node.kind \in {"Name", "Attribute", "Subscript"}
  /\ TypeMapGet(tm, Spelled(node)) \in keys

\* the replacement the Deprecated or Replaced table gives
DeprecatedReplacement(type_name) ==
  IF type_name \in DOMAIN DEPRECATED_TYPES
  THEN DEPRECATED_TYPES[type_name][1] ELSE REPLACED_TYPES[type_name][1]

\* one use-level diagnostic (location, text) per reached node resolving into the
\* Deprecated or Replaced table, in order
RECURSIVE DeprecatedUses(_, _)
DeprecatedUses(tm, nodes) ==
  IF nodes = <<>> THEN <<>>
  ELSE (IF ResolvesInto(tm, Head(nodes), DOMAIN DEPRECATED_TYPES \cup DOMAIN REPLACED_TYPES)
        THEN <<<<NodeRef(Head(nodes)),
                 "Replace '" \o Spelled(Head(nodes)) \o "' with '"
                   \o DeprecatedReplacement(TypeMapGet(tm, Spelled(Head(nodes)))) \o "'">>>>
        ELSE <<>>)
       \o DeprecatedUses(tm, Tail(nodes))

\* violations as (location, text) pairs
LocatedTexts(violations) ==
  [i \in 1..Len(violations) |->
     <<violations[i].node, MessageText(violations[i].message, violations[i].kwargs)>>]

\* C6: the deprecated evaluator yields exactly one use-level diagnostic per reached
\* name, dotted name or subscript resolving into the Deprecated or Replaced table,
\* at that node's location, naming the local spelling and the table's replacement;
\* the import-level diagnostic of an alias names the canonical identifier the
\* alias resolves to.
C6_UseNamesSpellingImportNamesCanonical ==
  pc = "_check_deprecated" =>
    /\ LocatedTexts(deprecated)
         = DeprecatedUses(type_map, Descent(type_map, probe.annotation, FALSE))
    /\ \A e \in Rendered(deprecated_imports) :
         e[3] \in {RemoveFromImport(type_map[e[1]]),
                   ReplaceImport(type_map[e[1]], DeprecatedReplacement(type_map[e[1]]))}

\* a use under a renamed import and a dotted use have both been diagnosed
C6_Witness ==
  /\ pc = "_check_deprecated"
  /\ \E i \in 1..Len(deprecated) : deprecated[i].kwargs.name = "TDict"
  /\ \E i \in 1..Len(deprecated) : deprecated[i].kwargs.name = "typ.List"
  /\ \E e \in Rendered(deprecated_imports) :
       e[1] = "TDict" /\ e[3] = RemoveFromImport("typing.Dict")

\* the alias map as the imports visited before the n-th visited node leave it
RECURSIVE TypeMapBefore(_)
TypeMapBefore(n) ==
  IF n = 1 THEN InitialTypeMap
  ELSE LET tm == TypeMapBefore(n - 1)
           node == AllVisited[n - 1]
       IN CASE node.kind = "Import" -> visit_Import(tm, node)
            [] node.kind = "ImportFrom" ->
                 visit_ImportFrom([type_map |-> tm, deprecated_imports |-> <<>>,
                                   union_imports |-> <<>>], node).type_map
            [] OTHER -> tm

\* one required-use diagnostic (location, text) per reached node resolving into the
\* Required table, in order
RECURSIVE RequiredUses(_, _)
RequiredUses(tm, nodes) ==
  IF nodes = <<>> THEN <<>>
  ELSE (IF ResolvesInto(tm, Head(nodes), DOMAIN REQUIRED_TYPES)
        THEN <<[node |-> NodeRef(Head(nodes)),
                message |-> REQUIRED_TYPES[TypeMapGet(tm, Spelled(Head(nodes)))][2],
                text |-> "Replace '" \o Spelled(Head(nodes)) \o "' with '"
                           \o REQUIRED_TYPES[TypeMapGet(tm, Spelled(Head(nodes)))][1]
                           \o "' for type alias"]>>
        ELSE <<>>)
       \o RequiredUses(tm, Tail(nodes))

\* the required-use diagnostics of the tree's plain assignments, as output tuples
RequiredDiagnostics ==
  UNION {LET uses == RequiredUses(TypeMapBefore(n),
                                  Descent(TypeMapBefore(n), AllVisited[n].value, FALSE))
         IN {<<uses[i].node.lineno, uses[i].node.col_offset,
               MessageCode(uses[i].message) \o cls.plugin_name \o " " \o uses[i].text,
               "AnnotationChecker">> : i \in 1..Len(uses)} :
         n \in {m \in 1..Len(AllVisited) : AllVisited[m].kind = "Assign"}}

Occurrences(s, e) == Cardinality({i \in 1..Len(s) : s[i] = e})

IsPrefix(s, t) == Len(s) <= Len(t) /\ s = SubSeq(t, 1, Len(s))

\* C8: nothing is output before the traversal has consumed the whole tree; the step
\* that outputs yields, in this order, the postponed bucket (iff postponed), the
\* deprecated-import groups, the deprecated bucket and the required bucket (iff
\* deprecated), the union-import groups and the union bucket (iff union); during
\* the traversal every bucket only grows at its end.
C8_OutputIsOrderedConcatenation ==
  [][/\ pc' # "done" => output' = <<>>
     /\ (pc # "done" /\ pc' = "done") =>
          /\ pc = "visiting" /\ pending = <<>>
          /\ output' =
               (IF checker.postponed THEN Messages(cls.plugin_name, postponed) ELSE <<>>)
               \o (IF checker.deprecated
                   THEN Messages(cls.plugin_name, DictValuesFlat(deprecated_imports))
                   ELSE <<>>)
               \o (IF checker.deprecated THEN Messages(cls.plugin_name, deprecated) ELSE <<>>)
               \o (IF checker.deprecated THEN Messages(cls.plugin_name, required) ELSE <<>>)
               \o (IF checker.union
                   THEN Messages(cls.plugin_name, DictValuesFlat(union_imports))
                   ELSE <<>>)
               \o (IF checker.union THEN Messages(cls.plugin_name, union) ELSE <<>>)
     /\ (pc = "visiting" /\ pc' = "visiting") =>
          /\ IsPrefix(postponed, postponed')
          /\ IsPrefix(deprecated, deprecated')
          /\ IsPrefix(required, required')
          /\ IsPrefix(union, union')]_vars

\* all three categories are on and the output holds a postponed, a deprecated-import,
\* a deprecated-use, a union-import and a union-use diagnostic
C8_Witness ==
  /\ pc = "done"
  /\ checker.postponed /\ checker.deprecated /\ checker.union
  /\ postponed # <<>> /\ deprecated_imports # <<>> /\ deprecated # <<>>
  /\ union_imports # <<>> /\ union # <<>>
  /\ Len(output) = Len(postponed) + Len(DictValuesFlat(deprecated_imports)) + Len(deprecated)
                     + Len(required) + Len(DictValuesFlat(union_imports)) + Len(union)

\* every violation the traversal recorded, in whichever bucket or group
AllViolations ==
  Range(postponed \o DictValuesFlat(deprecated_imports) \o deprecated \o required
          \o DictValuesFlat(union_imports) \o union)

\* the diagnostics of a category, by message code: postponed below 100, deprecation
\* (imports, uses, required) 100 to 399, union from 400
Category(lo, hi) ==
  {ast_node_message(cls.plugin_name, v) :
     v \in {w \in AllViolations : Message[w.message][1] \in lo..hi}}

\* what this traversal outputs under the flags p, d, u
OutputUnder(p, d, u) ==
  Yielded([checker EXCEPT !.postponed = p, !.deprecated = d, !.union = u],
          cls.plugin_name, postponed, deprecated_imports, deprecated, required,
          union_imports, union)

Without(s, category) == SelectSeq(s, LAMBDA e : e \notin category)

\* C9: the buckets the traversal leaves depend on the tree and the alias-mode flag
\* only; the output is what they yield under the three flags; and under any flags,
\* switching one category off yields the same sequence with exactly the diagnostics
\* of that category's codes removed.
C9_CategoriesIndependentlyGateable ==
  pc = "done" =>
    /\ [allow_type_alias |-> allow_type_alias, type_map |-> type_map,
        postponed |-> postponed, deprecated_imports |-> deprecated_imports,
        deprecated |-> deprecated, required |-> required,
        union_imports |-> union_imports, union |-> union]
         = Traverse([allow_type_alias |-> allow_type_alias, type_map |-> InitialTypeMap,
                     postponed |-> <<>>, deprecated_imports |-> <<>>, deprecated |-> <<>>,
                     required |-> <<>>, union_imports |-> <<>>, union |-> <<>>],
                    AllVisited)
    /\ output = OutputUnder(checker.postponed, checker.deprecated, checker.union)
    /\ LET postponed_codes == Category(0, 99)
           deprecation_codes == Category(100, 399)
           union_codes == Category(400, 499)
           out == [f \in BOOLEAN \X BOOLEAN \X BOOLEAN |-> OutputUnder(f[1], f[2], f[3])]
       IN \A p \in BOOLEAN, d \in BOOLEAN, u \in BOOLEAN :
            /\ out[<<FALSE, d, u>>] = Without(out[<<TRUE, d, u>>], postponed_codes)
            /\ out[<<p, FALSE, u>>] = Without(out[<<p, TRUE, u>>], deprecation_codes)
            /\ out[<<p, d, FALSE>>] = Without(out[<<p, d, TRUE>>], union_codes)

\* deprecation is off, union is on, and the output holds a union-import diagnostic
\* while a deprecated-import group stays unreported
C9_Witness ==
  /\ pc = "done"
  /\ ~checker.deprecated /\ checker.union
  /\ deprecated_imports # <<>> /\ union_imports # <<>>
  /\ Len(output) >= 1
  /\ \A i \in 1..Len(output) : output[i] \in Category(400, 499) \cup Category(0, 99)

\* one union-use diagnostic (location, text) per reached node resolving to
\* typing.Union, in order
RECURSIVE UnionUses(_, _)
UnionUses(tm, nodes) ==
  IF nodes = <<>> THEN <<>>
  ELSE (IF ResolvesInto(tm, Head(nodes), {"typing.Union"})
        THEN <<<<NodeRef(Head(nodes)), "Replace '" \o Spelled(Head(nodes)) \o "' with |">>>>
        ELSE <<>>)
       \o UnionUses(tm, Tail(nodes))

\* the spellings reached on a right-hand side
ReachedSpellings(nodes) ==
  {Spelled(nodes[i]) : i \in {j \in 1..Len(nodes) :
                                nodes[j].kind \in {"Name", "Attribute", "Subscript"}}}

\* C10: a step that visits a plain assignment never adds a postponed diagnostic.
\* With alias mode off it adds the deprecated-use and union-use diagnostics an
\* annotation with the same expression gets, keeps the import groups, and adds no
\* required-use diagnostic.  With alias mode on it adds only the required-use
\* diagnostics and retracts the import groups of the names reached; it adds no
\* deprecated-use and no union-use diagnostic.
C10_PlainAssignmentByMode ==
  [][Visiting("Assign") =>
       LET reached == Descent(type_map, Head(pending).value, FALSE)
           requires == RequiredUses(type_map, reached)
       IN /\ postponed' = postponed
          /\ IF allow_type_alias
             THEN /\ deprecated' = deprecated
                  /\ union' = union
                  /\ LocatedTexts(required')
                       = LocatedTexts(required)
                           \o [i \in 1..Len(requires) |-> <<requires[i].node, requires[i].text>>]
                  /\ Rendered(deprecated_imports')
                       = {e \in Rendered(deprecated_imports) :
                            e[1] \notin ReachedSpellings(reached)}
                  /\ Rendered(union_imports')
                       = {e \in Rendered(union_imports) :
                            e[1] \notin ReachedSpellings(reached)}
             ELSE /\ required' = required
                  /\ deprecated_imports' = deprecated_imports
                  /\ union_imports' = union_imports
                  /\ LocatedTexts(deprecated')
                       = LocatedTexts(deprecated) \o DeprecatedUses(type_map, reached)
                  /\ LocatedTexts(union')
                       = LocatedTexts(union) \o UnionUses(type_map, reached)]_vars

\* alias mode is off and a plain assignment has been given a deprecated-use and a
\* union-use diagnostic while the import groups of the names it uses are kept
C10_Witness ==
  /\ pc \in {"visiting", "done"}
  /\ ~allow_type_alias
  /\ required = <<>>
  /\ DictHas(deprecated_imports, "Dict") /\ DictHas(union_imports, "Union")
  /\ \E n \in 1..Len(AllVisited) :
       /\ AllVisited[n].kind = "Assign"
       /\ \E i \in 1..Len(deprecated) : deprecated[i].node.lineno = AllVisited[n].lineno
       /\ \E i \in 1..Len(union) : union[i].node.lineno = AllVisited[n].lineno

\* the evaluator that was applied to the probe annotation, applied to another node
Evaluate(tm, node) ==
  CASE pc = "_check_postponed" -> _check_postponed(tm, node, "POSTPONED_ASSIGN_TYPE")
    [] pc = "_check_deprecated" -> _check_deprecated(tm, node)
    [] pc = "_check_required" -> _check_required(tm, node)
    [] pc = "_check_union" -> _check_union(tm, node)
    [] OTHER -> <<>>

\* the diagnostics of each argument processed on its own, one after the other
RECURSIVE EvaluateEach(_, _)
EvaluateEach(tm, items) ==
  IF items = <<>> THEN <<>>
  ELSE Evaluate(tm, Head(items)) \o EvaluateEach(tm, Tail(items))

\* what the evaluator yielded for the arguments of the probe annotation: everything
\* but the diagnostic of the subscript itself
ArgumentDiagnostics ==
  SelectSeq(EvaluatorResult, LAMBDA v : v.node # NodeRef(probe.annotation))

\* C11 as stated: for each of the four evaluators and every Outer[A, B, ...], the
\* diagnostics for the arguments are the concatenation, in argument order, of the
\* diagnostics the evaluator yields for each argument on its own.
C11_TupleLawEveryOuter ==
  (/\ pc \in {"_check_postponed", "_check_deprecated", "_check_required", "_check_union"}
   /\ probe.annotation.kind = "Subscript") =>
    ArgumentDiagnostics = EvaluateEach(type_map, SliceItems(probe.annotation))

\* C11 amended: the same law, except that the postponed evaluator yields nothing for
\* the arguments of a subscript whose head resolves to a Literal construct.
C11_TupleLawExceptPostponedLiteral ==
  (/\ pc \in {"_check_postponed", "_check_deprecated", "_check_required", "_check_union"}
   /\ probe.annotation.kind = "Subscript") =>
    ArgumentDiagnostics =
      IF pc = "_check_postponed" /\ IsLiteralSubscript(type_map, probe.annotation)
      THEN <<>>
      ELSE EvaluateEach(type_map, SliceItems(probe.annotation))

\* the deprecated evaluator has processed TDict[A, B] and yielded a diagnostic at B
C11_Witness ==
  /\ pc = "_check_deprecated"
  /\ probe.annotation.kind = "Subscript"
  /\ Len(SliceItems(probe.annotation)) = 2
  /\ \E i \in 1..Len(deprecated) :
       deprecated[i].node = NodeRef(SliceItems(probe.annotation)[2])

\* a tri-state mode: always is on, never is off, auto is the given condition
ModeActive(option, auto_condition) ==
  option = "always" \/ (option = "auto" /\ auto_condition)

\* the tree holds `from __future__ import annotations`
TreeImportsFutureAnnotations ==
  \E n \in 1..Len(AllVisited) :
    /\ AllVisited[n].kind = "ImportFrom"
    /\ AllVisited[n].module = "__future__"
    /\ \E k \in 1..Len(AllVisited[n].names) : AllVisited[n].names[k].name = "annotations"

C13_RunsAreRepeatable ==
  (pc \in {"constructed", "iterated"} /\ ~probe.reparsed) =>
    /\ \A i, j \in 1..Len(probe.outputs) : probe.outputs[i] = probe.outputs[j]
    /\ \A i \in 1..Len(probe.outputs) : \A k \in 1..Len(probe.others) :
         probe.others[k].tree = checker.tree => probe.others[k].output = probe.outputs[i]

C13_Witness ==
  /\ pc = "iterated"
  /\ ~probe.reparsed
  /\ Len(probe.outputs) = 2
  /\ Len(probe.outputs[1]) >= 3
  /\ cls.union_option = "auto"
  /\ \E k \in 1..Len(probe.others) : probe.others[k].tree = checker.tree

\* the role tag of the position a descent starts from
RoleOf(kind) ==
  CASE kind = "AnnAssign" -> "variable"
    [] kind = "arg" -> "argument"
    [] kind = "FunctionDef" -> "return"

\* C14: every postponed diagnostic recorded while an annotated assignment, a
\* parameter or a function definition is visited reads "Remove quotes from <role>
\* type annotation '<value>'" with the role of that position (variable, argument,
\* return), at whatever depth inside the annotation the quoted string sits
C14_RoleFollowsCallSite ==
  [][postponed' # postponed =>
       /\ pc = "visiting" /\ pending # <<>>
       /\ Head(pending).kind \in {"AnnAssign", "arg", "FunctionDef"}
       /\ Len(postponed') > Len(postponed)
       /\ SubSeq(postponed', 1, Len(postponed)) = postponed
       /\ \A i \in (Len(postponed) + 1)..Len(postponed') :
            MessageText(postponed'[i].message, postponed'[i].kwargs)
              = "Remove quotes from " \o RoleOf(Head(pending).kind)
                  \o " type annotation '" \o postponed'[i].kwargs.value \o "'"]_vars

\* a finished run that reported a quoted string under each of the three roles, the
\* return one nested inside a generic's arguments
C14_Witness ==
  /\ pc = "done"
  /\ \E i, j, k \in 1..Len(postponed) :
       /\ postponed[i].message = "POSTPONED_ASSIGN_TYPE"
       /\ postponed[j].message = "POSTPONED_ARG_TYPE"
       /\ postponed[k].message = "POSTPONED_RETURN_TYPE" /\ postponed[k].kwargs.value = "C"
  /\ \E n \in 1..Len(output) :
       output[n][3] = "MDA003 Remove quotes from return type annotation 'C'"

\* where an expression holds name-bearing nodes whose spelling the alias map does not
\* hold, and under which spelling
RECURSIVE AbsentNodes(_, _)
AbsentNodes(tm, node) ==
  LET Union_(S) == UNION S
      own == IF node.kind \in {"Name", "Attribute", "Subscript"}
                  /\ Spelled(node) \notin DOMAIN tm
             THEN {<<NodeRef(node), Spelled(node)>>} ELSE {}
  IN own \cup
     CASE node.kind = "Attribute" -> AbsentNodes(tm, node.value)
       [] node.kind = "Subscript" ->
            AbsentNodes(tm, node.value) \cup AbsentNodes(tm, node.slice)
       [] node.kind = "Index" -> AbsentNodes(tm, node.value)
       [] node.kind \in {"Tuple", "List"} ->
            Union_({AbsentNodes(tm, node.elts[i]) : i \in 1..Len(node.elts)})
       [] node.kind = "BinOp" -> AbsentNodes(tm, node.left) \cup AbsentNodes(tm, node.right)
       [] OTHER -> {}

\* C15: the deprecated, required and union evaluators report nothing at a node whose
\* spelling is not a key of the alias map, and nothing under such a name
C15_AbsentNameNeverDiagnosed ==
  pc \in {"_check_deprecated", "_check_required", "_check_union"} =>
    \A v \in Range(deprecated \o required \o union) :
      /\ v.kwargs.name \in DOMAIN type_map
      /\ \A n \in AbsentNodes(type_map, probe.annotation) : v.node # n[1]

\* an annotation that holds the un-imported Dict beside an imported alias that is
\* reported
C15_Witness ==
  /\ pc \in {"_check_deprecated", "_check_required"}
  /\ "Dict" \notin DOMAIN type_map
  /\ \E n \in AbsentNodes(type_map, probe.annotation) : n[2] = "Dict"
  /\ deprecated \o required # <<>>

\* the alias map once every import statement of the tree has been visited
FinalTypeMap == TypeMapBefore(Len(AllVisited) + 1)

\* the expression a visit evaluates
EvaluatedExpression(node) ==
  CASE node.kind \in {"AnnAssign", "arg"} -> node.annotation
    [] node.kind = "FunctionDef" -> node.returns
    [] node.kind = "Assign" -> node.value

\* C16: when an annotation or an assignment is about to be evaluated, each name in it
\* resolves in the alias map exactly as it does in the map built from all the import
\* statements of the tree, wherever in the tree those imports stand
C16_ResolutionIgnoresImportPosition ==
  (pc = "visiting" /\ pending # <<>>
     /\ Head(pending).kind \in {"AnnAssign", "arg", "FunctionDef", "Assign"}) =>
    \A name \in UsedNames(EvaluatedExpression(Head(pending))) :
      TypeMapGet(type_map, name) = TypeMapGet(FinalTypeMap, name)

\* every node of the tree that is an import or carries an annotation, async function
\* definitions among them, in traversal order
AnnotationPositions ==
  VisitOrder(checker.tree, AnnotationVisitorMethods \cup {"AsyncFunctionDef"},
             AnnotationVisitorGenericFirst \cup {"AsyncFunctionDef"})

\* the alias map after the import statements among the given nodes
RECURSIVE TypeMapAfter(_, _)
TypeMapAfter(tm, nodes) ==
  IF nodes = <<>> THEN tm
  ELSE LET node == Head(nodes)
           next == CASE node.kind = "Import" -> visit_Import(tm, node)
                     [] node.kind = "ImportFrom" ->
                          visit_ImportFrom([type_map |-> tm, deprecated_imports |-> <<>>,
                                            union_imports |-> <<>>], node).type_map
                     [] OTHER -> tm
       IN TypeMapAfter(next, Tail(nodes))

\* C17: once the run is over, the buckets hold what the postponed, deprecated and
\* union evaluators give for the annotation of every annotated assignment, of every
\* parameter and for the return annotation of every function definition, synchronous
\* or async, at module level, in a class body or in a function
C17_EveryAnnotationPositionEvaluated ==
  pc = "done" =>
    \A n \in 1..Len(AnnotationPositions) :
      LET node == AnnotationPositions[n]
          tm == TypeMapAfter(InitialTypeMap, SubSeq(AnnotationPositions, 1, n - 1))
          annotation == IF node.kind \in {"AnnAssign", "arg"}
                        THEN node.annotation ELSE node.returns
          message == CASE node.kind = "AnnAssign" -> "POSTPONED_ASSIGN_TYPE"
                       [] node.kind = "arg" -> "POSTPONED_ARG_TYPE"
                       [] OTHER -> "POSTPONED_RETURN_TYPE"
      IN node.kind \in {"AnnAssign", "arg", "FunctionDef", "AsyncFunctionDef"} =>
           /\ Range(_check_postponed(tm, annotation, message)) \subseteq Range(postponed)
           /\ Range(_check_deprecated(tm, annotation)) \subseteq Range(deprecated)
           /\ Range(_check_union(tm, annotation)) \subseteq Range(union)

\* C18: after retraction over an assignment's right-hand expression, no name that
\* occurs anywhere in the expression (in nested generic arguments, in a bracketed
\* list, as an operand) still has an import-level group
C18_RetractionReachesEveryName ==
  pc = "_remove_import_violations" =>
    \A name \in UsedNames(probe.annotation) :
      ~DictHas(deprecated_imports, name) /\ ~DictHas(union_imports, name)

\* what a checker built under the given class options yields for a tree when nothing
\* happens between its construction and its iteration
UndisturbedOutput(options, tree, ver) ==
  AnnotationChecker_iter(AnnotationChecker_init(options, tree), options, ver).output

\* C19: whatever happens between a checker's construction and its iterations
\* (parse_options called again with other options, another checker constructed and
\* iterated), every iteration yields what the tree and the options in force at the
\* construction determine
C19_OutputDependsOnOwnInvocationOnly ==
  pc = "iterated" =>
    \A i \in 1..Len(probe.outputs) :
      probe.outputs[i] = UndisturbedOutput(probe.options, checker.tree, version)

\* the canonical identifiers of a recognized module's recognized members
CanonicalIds(m) == {m \o "." \o x : x \in RecognizedTypes[m]}

\* C20: after an import statement naming a recognized module, in any form and whether
\* the member it names is recognized or not, the six built-in entries of the alias map
\* are as they were, every other entry maps to a recognized member of that module, and
\* a from-import of an unrecognized member has added nothing
C20_OnlyRecognizedMembersRegistered ==
  pc \in {"resolved", "unrecognized"} =>
    /\ \A k \in DOMAIN InitialTypeMap : type_map[k] = InitialTypeMap[k]
    /\ \A k \in DOMAIN type_map \ DOMAIN InitialTypeMap :
         type_map[k] \in CanonicalIds(probe.module)
    /\ probe.form = "from_unrecognized" => type_map = InitialTypeMap

\* the import-level diagnostics a finished run yields, as it yields them
ImportLevelOutput ==
  (IF checker.deprecated
   THEN Messages(cls.plugin_name, DictValuesFlat(deprecated_imports)) ELSE <<>>)
  \o (IF checker.union
      THEN Messages(cls.plugin_name, DictValuesFlat(union_imports)) ELSE <<>>)

\* C21: the output of a finished run holds every import-level diagnostic it yields
\* once: no two of them agree in location, code and text
C21_ImportDiagnosticsDistinct ==
  pc = "done" =>
    /\ Range(ImportLevelOutput) \subseteq Range(output)
    /\ \A i, j \in 1..Len(ImportLevelOutput) :
         i # j => ImportLevelOutput[i] # ImportLevelOutput[j]

\* a statement of the module body that imports annotations from __future__
TopLevelFutureImport ==
  \E n \in 1..Len(checker.tree) :
    /\ checker.tree[n].kind = "ImportFrom"
    /\ checker.tree[n].module = "__future__"
    /\ \E k \in 1..Len(checker.tree[n].names) : checker.tree[n].names[k].name = "annotations"

\* C22: when the scan is over the detector's flag is set exactly when a top-level
\* import-from of the tree imports annotations from __future__; an import-from inside
\* a function or class body does not set it
C22_EnabledIffTopLevelFutureImport ==
  pc = "scanned" => (future_enabled <=> TopLevelFutureImport)

\* once set, the flag stays set for the rest of the scan
FutureFlagIsSticky ==
  [][future_enabled => future_enabled']_vars

\* the number of nodes of an expression
RECURSIVE NodeSize(_)
RECURSIVE NodeSizes(_)
NodeSize(node) ==
  1 + CASE node.kind = "Attribute" -> NodeSize(node.value)
        [] node.kind = "Subscript" -> NodeSize(node.value) + NodeSize(node.slice)
        [] node.kind = "Index" -> NodeSize(node.value)
        [] node.kind \in {"Tuple", "List"} -> NodeSizes(node.elts)
        [] node.kind = "BinOp" -> NodeSize(node.left) + NodeSize(node.right)
        [] OTHER -> 0

NodeSizes(nodes) ==
  IF nodes = <<>> THEN 0 ELSE NodeSize(Head(nodes)) + NodeSizes(Tail(nodes))

\* the nodes still to be gone through by the calls on the stack
RECURSIVE StackSize(_)
StackSize(stack) ==
  IF stack = <<>> THEN 0 ELSE NodeSize(Head(stack)[3]) + StackSize(Tail(stack))

\* every call a step makes is on a node strictly inside the node of the call that
\* makes it, and the stack's node count goes down
CallsAreOnStrictSubNodes ==
  (pc = "descent" /\ pending # <<>>) =>
    LET node == Head(pending)[3]
        made == Len(pending') - Len(pending) + 1
    IN /\ made >= 0
       /\ \A i \in 1..made :
            /\ pending'[i][2] \in SubNodes(node) \ {NodeRef(node)}
            /\ NodeSize(pending'[i][3]) < NodeSize(node)
       /\ StackSize(pending') < StackSize(pending)

\* what the outermost call has produced when it returns is what the procedure gives
\* for the whole expression
ReturnsTheResult ==
  pc' = "returned" =>
    /\ postponed' = IF probe.procedure = "_check_postponed"
                    THEN _check_postponed(type_map, probe.annotation, "POSTPONED_ASSIGN_TYPE")
                    ELSE <<>>
    /\ deprecated' = IF probe.procedure = "_check_deprecated"
                     THEN _check_deprecated(type_map, probe.annotation) ELSE <<>>
    /\ required' = IF probe.procedure = "_check_required"
                   THEN _check_required(type_map, probe.annotation) ELSE <<>>
    /\ union' = IF probe.procedure = "_check_union"
                THEN _check_union(type_map, probe.annotation) ELSE <<>>
    /\ probe.procedure = "_name" => probe'.name = _name(probe.annotation)
    /\ probe.procedure = "_remove_import_violations" =>
         LET im == _remove_import_violations(
                     [deprecated_imports |-> EvalVisitor(version).deprecated_imports,
                      union_imports |-> EvalVisitor(version).union_imports],
                     probe.annotation)
         IN /\ deprecated_imports' = im.deprecated_imports
            /\ union_imports' = im.union_imports

\* C23: in the four evaluators, in retraction and in name resolution every recursive
\* call is made on a strict sub-node of the caller's argument, and every descent into
\* a finite annotation comes to its end and returns the procedure's result
C23_DescentTerminates ==
  /\ [][CallsAreOnStrictSubNodes /\ ReturnsTheResult]_vars
  /\ <>(pc = "returned")

\* a descent over a subscript nested in a subscript that has returned with a result
C23_Witness ==
  /\ pc = "returned"
  /\ probe.annotation.kind = "Subscript"
  /\ \E i \in 1..Len(SliceItems(probe.annotation)) :
       SliceItems(probe.annotation)[i].kind = "Subscript"
  /\ deprecated # <<>>

\* the forward tables taken together
ForwardTypes == DEPRECATED_TYPES @@ REPLACED_TYPES

\* the numeric code of a message
Code(message) == Message[message][1]

\* C24: DEPRECATED_TYPES and REPLACED_TYPES have no key in common; REQUIRED_TYPES is
\* the inverse of their union, entry for entry and with nothing else; for every type
\* the use-level code is the import-level code + 100 and the required code the
\* import-level code + 200; no two messages have the same code.  The tables are
\* constants, checked once; the code distances are checked again on every
\* diagnostic a run records
C24_TablesConsistent ==
  /\ \A j \in 1..Len(deprecated) : \E k \in DOMAIN ForwardTypes :
       /\ deprecated[j].message = ForwardTypes[k][3]
       /\ Code(deprecated[j].message) = Code(ForwardTypes[k][2]) + 100
  /\ \A j \in 1..Len(required) : \E k \in DOMAIN ForwardTypes :
       /\ required[j].message = REQUIRED_TYPES[ForwardTypes[k][1]][2]
       /\ Code(required[j].message) = Code(ForwardTypes[k][2]) + 200
  /\ pc = "class" =>
    /\ DOMAIN DEPRECATED_TYPES \cap DOMAIN REPLACED_TYPES = {}
    /\ \A k \in DOMAIN ForwardTypes :
         LET entry == ForwardTypes[k] IN
         /\ entry[1] \in DOMAIN REQUIRED_TYPES
         /\ REQUIRED_TYPES[entry[1]][1] = k
         /\ Code(entry[3]) = Code(entry[2]) + 100
         /\ Code(REQUIRED_TYPES[entry[1]][2]) = Code(entry[2]) + 200
    /\ \A r \in DOMAIN REQUIRED_TYPES :
         /\ REQUIRED_TYPES[r][1] \in DOMAIN ForwardTypes
         /\ ForwardTypes[REQUIRED_TYPES[r][1]][1] = r
    /\ \A m1, m2 \in DOMAIN Message : m1 # m2 => Code(m1) # Code(m2)

\* a run whose buckets hold, for typing.Dict, the import-level and the use-level
\* diagnostic the forward table names, 100 apart
C24_Witness ==
  /\ pc = "done"
  /\ \E i \in 1..Len(DictValuesFlat(deprecated_imports)) : \E j \in 1..Len(deprecated) :
       /\ DictValuesFlat(deprecated_imports)[i].message = DEPRECATED_TYPES["typing.Dict"][2]
       /\ deprecated[j].message = DEPRECATED_TYPES["typing.Dict"][3]
       /\ Code(deprecated[j].message) = Code(DictValuesFlat(deprecated_imports)[i].message) + 100
  /\ \E i, j \in 1..Len(output) :
       /\ output[i][3] = "MDA102 'typing.Dict' is deprecated, remove from import"
       /\ output[j][3] = "MDA202 Replace 'Dict' with 'dict'"

\* the role a message of either engine stands for
MessageRole(message) ==
  CASE message \in {"ASSIGN_TYPE", "POSTPONED_ASSIGN_TYPE"} -> "variable"
    [] message \in {"ARG_TYPE", "POSTPONED_ARG_TYPE"} -> "argument"
    [] message \in {"RETURN_TYPE", "POSTPONED_RETURN_TYPE"} -> "return"

\* where an expression holds what the current engine exempts: Ellipsis constants, and
\* everything inside the arguments of a subscript whose head resolves to a Literal
RECURSIVE ExemptNodes(_, _, _)
ExemptNodes(tm, node, inside) ==
  LET Union_(S) == UNION S
      own == IF inside \/ node.kind = "Ellipsis"
                       \/ (node.kind = "Constant" /\ node.vt = "Ellipsis")
             THEN {NodeRef(node)} ELSE {}
  IN CASE node.kind = "Subscript" ->
            own \cup ExemptNodes(tm, node.slice,
                                 inside \/ (/\ node.value.kind \in {"Name", "Attribute"}
                                            /\ TypeMapGet(tm, _name(node)) \in LITERALS))
       [] node.kind = "Index" -> ExemptNodes(tm, node.value, inside)
       [] node.kind \in {"Tuple", "List"} ->
            Union_({ExemptNodes(tm, node.elts[i], inside) : i \in 1..Len(node.elts)})
       [] node.kind = "BinOp" ->
            own \cup ExemptNodes(tm, node.left, inside) \cup ExemptNodes(tm, node.right, inside)
       [] OTHER -> own

\* C25: on the same annotation the current engine's postponed diagnostics are the
\* historical engine's, in the same order and with the same node, role and value,
\* without those for Ellipsis constants and for constants inside Literal[...]
\* arguments, and nothing else is left out
C25_HistoricalAgreesUpToExemptions ==
  pc = "_check_annotation" =>
    LET exempt == ExemptNodes(type_map, probe.annotation, FALSE)
        Kept(h) == h.node \notin exempt
        kept == SelectSeq(output, Kept)
    IN /\ Len(kept) = Len(postponed)
       /\ \A i \in 1..Len(kept) :
            /\ kept[i].node = postponed[i].node
            /\ kept[i].value = postponed[i].kwargs.value
            /\ MessageRole(kept[i].message) = MessageRole(postponed[i].message)

\* an annotation for which the historical engine reports a quoted string both engines
\* agree on, and something the current engine exempts
C25_Witness ==
  /\ pc = "_check_annotation"
  /\ postponed # <<>>
  /\ Len(output) > Len(postponed)
  /\ \E i \in 1..Len(output) : output[i].value = "..."
  /\ \E i \in 1..Len(output) :
       output[i].node \in ExemptNodes(type_map, probe.annotation, FALSE)
         /\ output[i].value = "int"

\* the groups of a dictionary whose keys are not among the given names, in order
GroupsExcept(d, names) ==
  LET Other(group) == group.key \notin names IN SelectSeq(d, Other)

\* C26: throughout the traversal the use-level buckets only grow at their end; the
\* visit of an assignment in alias mode leaves the alias map, the postponed,
\* deprecated and union buckets and every group of an alias the assignment does not
\* name as they were, and deletes nothing but groups of names in its right-hand
\* expression; the visit of an annotation leaves the alias map and the import-level
\* groups as they were, so a retracted group is not brought back by a use
C26_RetractionFrame ==
  [][(pc = "visiting" /\ pending # <<>>) =>
       LET node == Head(pending) IN
       /\ IsPrefix(postponed, postponed') /\ IsPrefix(deprecated, deprecated')
       /\ IsPrefix(required, required') /\ IsPrefix(union, union')
       /\ (node.kind = "Assign" /\ allow_type_alias) =>
            LET names == UsedNames(node.value) IN
            /\ type_map' = type_map
            /\ postponed' = postponed /\ deprecated' = deprecated /\ union' = union
            /\ GroupsExcept(deprecated_imports', names) = GroupsExcept(deprecated_imports, names)
            /\ GroupsExcept(union_imports', names) = GroupsExcept(union_imports, names)
            /\ \A i \in 1..Len(deprecated_imports') : deprecated_imports'[i] \in Range(deprecated_imports)
            /\ \A i \in 1..Len(union_imports') : union_imports'[i] \in Range(union_imports)
       /\ node.kind \in {"AnnAssign", "arg", "FunctionDef"} =>
            /\ type_map' = type_map
            /\ deprecated_imports' = deprecated_imports
            /\ union_imports' = union_imports]_vars

\* a finished alias-mode run in which the group of Dict was retracted by an
\* assignment, another alias kept its group, and an annotation using Dict still got
\* its use-level diagnostic
C26_Witness ==
  /\ pc = "done"
  /\ allow_type_alias
  /\ "Dict" \in DOMAIN type_map /\ type_map["Dict"] = "typing.Dict"
  /\ ~DictHas(deprecated_imports, "Dict")
  /\ DictHas(deprecated_imports, "TMap")
  /\ \E n \in 1..Len(AllVisited) :
       AllVisited[n].kind = "Assign" /\ "Dict" \in UsedNames(AllVisited[n].value)
  /\ \E j \in 1..Len(deprecated) :
       deprecated[j].kwargs.name = "Dict" /\ deprecated[j].message = "DEPRECATED_TYPE_DICT"

====
